---- MODULE Spec2Model ----
(***************************************************************************)
(* State-machine model of the pagenodes-mcp server (src/server.js): the    *)
(* device registry, the aggregated node catalog, the JSON-RPC dispatcher   *)
(* and its transports.                                                     *)
(***************************************************************************)
EXTENDS Integers, Sequences, FiniteSets, TLC

\* ------------------------------------------------------------- id universe
\* Ids a device may put in info.id; "all" is also the broadcast sentinel.
CallerIds == {"devA", "all"}
\* Values of generateDeviceId(): `device-` + 8 hex digits of a random UUID.
\* The code draws them at random and never looks at the registry.
generateDeviceId == {"device-0001", "device-0002"}

\* ------------------------------------------------------------------ bounds
\* registerDevice / registerClient calls handled in one run.
MaxRegs == 2

\* WebSocket connections (device peers) that may be accepted.
Conns == {"c1", "c2"}
NoConn == "none"
\* SSE streams that may be opened; each gets its own crypto.randomUUID().
Sessions == {"s1", "s2"}

\* JS undefined / null (a falsy non-string), as a distinguished value.
NULL == "<undefined>"

\* `!x` of JavaScript for the values the model uses (undefined, '' are falsy).
Falsy(x) == x = NULL \/ x = ""

\* What info?.id may be in a registerDevice call.
InfoIds == CallerIds \cup generateDeviceId \cup {"", NULL}

\* ------------------------------------------------------------ node catalogs
N1 == [type |-> "inject", category |-> "input", description |-> "d1"]
N1b == [type |-> "inject", category |-> NULL, description |-> NULL]
N2 == [type |-> "gpio", category |-> "hardware", description |-> "d2"]
N0 == [type |-> NULL, category |-> "input", description |-> "d0"]
CatEmpty == << >>
CatA == <<N1, N2>>
CatB == <<N0, N1b, N1b>>
Catalogs == {CatEmpty, CatA, CatB}
\* What getState may resolve with: a state with a nodeCatalog (an empty array is
\* truthy), or one without (has = FALSE).
StateReplies ==
    {[has |-> TRUE, nodeCatalog |-> cat] : cat \in Catalogs}
        \cup {[has |-> FALSE, nodeCatalog |-> << >>]}

\* ------------------------------------------------------------------ tools
\* MCP_TOOLS, by name, in the order of the source.
MCP_TOOLS ==
    <<"list_devices", "get_device_details", "get_started", "get_flows", "create_flow",
      "add_nodes", "update_node", "delete_node", "deploy", "get_debug_output",
      "get_errors", "get_logs", "clear_logs", "get_inject_nodes", "inject_node",
      "get_node_details", "trigger_node", "clear_debug", "clear_errors",
      "get_node_statuses", "get_canvas_svg", "get_mcp_messages", "send_mcp_message",
      "get_custom_tools", "use_custom_tool">>
ToolNames == {MCP_TOOLS[i] : i \in 1..Len(MCP_TOOLS)}
\* tools whose implementation is requireDevice, one remote call, tag with deviceId
SimpleTools ==
    {"get_flows", "create_flow", "add_nodes", "update_node", "delete_node",
     "get_debug_output", "get_errors", "get_logs", "clear_logs", "get_inject_nodes",
     "inject_node", "get_node_details", "trigger_node", "clear_debug", "clear_errors",
     "get_node_statuses", "get_canvas_svg", "get_mcp_messages", "get_custom_tools"}
\* tools with the `deviceId === 'all'` special case
BroadcastTools == {"deploy", "send_mcp_message"}
\* tools that call requireDevice on every path (get_started only with a deviceId)
DeviceTools == SimpleTools \cup BroadcastTools \cup {"get_device_details", "use_custom_tool"}
\* the peer method each tool calls
RpcOf(tool) ==
    CASE tool = "get_flows" -> "getFlows"
      [] tool = "create_flow" -> "createFlow"
      [] tool = "add_nodes" -> "addNodes"
      [] tool = "update_node" -> "updateNode"
      [] tool = "delete_node" -> "deleteNode"
      [] tool = "deploy" -> "deploy"
      [] tool = "get_debug_output" -> "getDebugOutput"
      [] tool = "get_errors" -> "getErrors"
      [] tool = "get_logs" -> "getLogs"
      [] tool = "clear_logs" -> "clearLogs"
      [] tool = "get_inject_nodes" -> "getInjectNodes"
      [] tool = "inject_node" -> "inject"
      [] tool = "get_node_details" -> "getNodeDetails"
      [] tool = "trigger_node" -> "trigger"
      [] tool = "clear_debug" -> "clearDebug"
      [] tool = "clear_errors" -> "clearErrors"
      [] tool = "get_node_statuses" -> "getNodeStatuses"
      [] tool = "get_canvas_svg" -> "getCanvasSvg"
      [] tool = "get_mcp_messages" -> "getMessages"
      [] tool = "send_mcp_message" -> "sendMessage"
      [] tool = "get_custom_tools" -> "getCustomTools"
      [] tool = "use_custom_tool" -> "useCustomTool"
      [] tool = "get_device_details" -> "getState"
      [] tool = "get_started" -> "getState"
      [] OTHER -> NULL

\* ----------------------------------------------------------------- values
\* Every kind of value is a record with one fixed set of fields.
\* An error message: `text`, with the name or id it embeds.
Msg(text, arg) == [text |-> text, arg |-> arg]
NoMsg == Msg(NULL, NULL)
\* What a device answers to a remote call: an object that may carry its own
\* deviceId key and its own success key (NULL: the key is absent).
Reply(deviceId) == [deviceId |-> deviceId, success |-> NULL, data |-> "payload"]
NoReply == [deviceId |-> NULL, success |-> NULL, data |-> NULL]
Replies == {Reply(NULL), Reply("devX"), [Reply(NULL) EXCEPT !.success = "false"]}
\* The message a rejected remote call carries.
RemoteError == Msg("remote failure", NULL)

\* The advisory texts of requireDevice.
\* adv: which text; deviceId, deviceList: what it embeds; refers: the tool it
\* tells the caller to use.
NoAdv == [adv |-> NULL, deviceId |-> NULL, deviceList |-> << >>, refers |-> NULL]
\* "No PageNodes devices are connected ... Tell the user to: ..."
ConnectAdvisory == [NoAdv EXCEPT !.adv = "connect"]
\* "deviceId is required ... Use list_devices ... Available devices: <list>"
ChooseAdvisory(list) ==
    [NoAdv EXCEPT !.adv = "choose", !.deviceList = list, !.refers = "list_devices"]
\* a "not found" text that does not name the id it was asked for
NotFoundUnnamed(deviceId) ==
    [NoAdv EXCEPT !.adv = "not_found", !.refers = "list_devices"]
\* `Device "<id>" not found. Use list_devices to see available devices.`
NotFoundAdvisory(deviceId) ==
    [NoAdv EXCEPT !.adv = "not_found", !.deviceId = deviceId, !.refers = "list_devices"]

\* What a tool implementation returns.
NoRet ==
    [kind |-> NULL, adv |-> NoAdv, deviceId |-> NULL, registration |-> NULL,
     reply |-> NoReply, results |-> << >>, count |-> 0, list |-> << >>,
     catalog |-> << >>, customTools |-> FALSE]
\* `return content`: the content array of requireDevice, [{type: 'text', text}]
ContentRet(adv) == [NoRet EXCEPT !.kind = "content", !.adv = adv]
\* { deviceId: device.registration.id, ...result }: a deviceId key of the reply
\* comes later in the literal and wins
TaggedRet(deviceId, reply) ==
    [NoRet EXCEPT !.kind = "tagged",
                  !.deviceId = IF reply.deviceId # NULL THEN reply.deviceId ELSE deviceId,
                  !.reply = reply]
\* { deviceId: device.registration.id, result } of use_custom_tool
CustomRet(deviceId, reply) ==
    [NoRet EXCEPT !.kind = "custom", !.deviceId = deviceId, !.reply = reply]
\* { error: 'Tool name is required' }
NameRequiredRet == [NoRet EXCEPT !.kind = "name_required"]
\* { deployedTo | sentTo: results.length, results }
BroadcastRet(results) ==
    [NoRet EXCEPT !.kind = "broadcast", !.count = Len(results), !.results = results]
\* one entry of a broadcast's results: { deviceId: id, success: true, ...result }
\* (keys of the reply come later in the literal and win), or
\* { deviceId: id, success: false, error: err.message }
BroadcastEntry(deviceId, success, reply, err) ==
    [deviceId |-> IF success /\ reply.deviceId # NULL THEN reply.deviceId ELSE deviceId,
     success |-> IF success /\ reply.success # NULL THEN reply.success = "true" ELSE success,
     reply |-> reply, error |-> err]

\* one entry of list_devices; customTools: the names came from getCustomTools
ListEntry(deviceId, type, customTools) ==
    [id |-> deviceId, type |-> type, status |-> "online", customTools |-> customTools]
\* { count: result.length, devices: result, hint }
ListRet(list) == [NoRet EXCEPT !.kind = "list", !.count = Len(list), !.list = list]
\* get_started without a deviceId: { guide, connectedDevices, devices, nodeCatalog, hint }
OverviewRet(count, list, catalog) ==
    [NoRet EXCEPT !.kind = "overview", !.count = count, !.list = list, !.catalog = catalog]
\* get_started with a deviceId: { guide, deviceId, ..., connectedDevices, ...state }
StartedRet(deviceId, count, state) ==
    [NoRet EXCEPT !.kind = "started",
                  !.deviceId = IF state.deviceId # NULL THEN state.deviceId ELSE deviceId,
                  !.count = count, !.reply = state]
\* get_device_details: { registration, ...state, customTools }; the id is
\* registration.id, a top-level deviceId key exists only if the state has one
DetailsRet(deviceId, state, customTools) ==
    [NoRet EXCEPT !.kind = "details", !.registration = deviceId,
                  !.deviceId = state.deviceId, !.reply = state,
                  !.customTools = customTools]

\* The result of handleToolCall: { content: [{ type: 'text', text }], isError? }.
\* text is JSON.stringify(result, null, 2) (json = TRUE) or `Error: <message>`.
NoText == [json |-> FALSE, value |-> NoRet, message |-> NoMsg]
JsonText(ret) == [json |-> TRUE, value |-> ret, message |-> NoMsg]
ErrorText(msg) == [json |-> FALSE, value |-> NoRet, message |-> msg]
NoToolResult == [content |-> << >>, isError |-> FALSE]
ToolOk(ret) == [content |-> <<[type |-> "text", text |-> JsonText(ret)]>>, isError |-> FALSE]
ToolErr(msg) == [content |-> <<[type |-> "text", text |-> ErrorText(msg)]>>, isError |-> TRUE]

\* The `result` member handleRequest computes, by method.
NoResult == [kind |-> NULL, tool |-> NoToolResult, tools |-> << >>]
InitializeResult == [NoResult EXCEPT !.kind = "initialize"]
\* a tools/list result that advertises use_custom_tool once more at the end
ToolsListResultRepeated ==
    [NoResult EXCEPT !.kind = "tools", !.tools = Append(MCP_TOOLS, "use_custom_tool")]
ToolsListResult == [NoResult EXCEPT !.kind = "tools", !.tools = MCP_TOOLS]
PingResult == [NoResult EXCEPT !.kind = "empty"]
ToolCallResult(tr) == [NoResult EXCEPT !.kind = "tool", !.tool = tr]

\* What handleRequest returns: null, { jsonrpc, id, result } or { jsonrpc, id, error }.
NoResponse ==
    [present |-> FALSE, id |-> NULL, hasResult |-> FALSE, result |-> NoResult,
     hasError |-> FALSE, message |-> NoMsg]
ResultResponse(id, result) ==
    [NoResponse EXCEPT !.present = TRUE, !.id = id, !.hasResult = TRUE, !.result = result]
ErrorResponse(id, msg) ==
    [NoResponse EXCEPT !.present = TRUE, !.id = id, !.hasError = TRUE, !.message = msg]

\* What a transport did with a request: the line written to stdout, the HTTP
\* status and body of the POST, the `message` event written to an SSE stream.
NoOut == [stdout |-> FALSE, status |-> 0, body |-> "none", sse |-> NULL]

\* ---------------------------------------------------------------- requests
Methods ==
    {"initialize", "notifications/initialized", "tools/list", "tools/call", "ping",
     "no/such_method"}
\* the id member: NULL when the request has none
RequestIds == {NULL, "7"}
\* the deviceId argument of a tool call; "ghost" is never registered
ArgIds == {NULL, "", "devA", "all", "device-0001", "ghost"}
\* a JSON-RPC request; params = FALSE: no params member. tool and deviceId are
\* params.name and params.arguments?.deviceId, argName is arguments?.name.
\* filter holds arguments.type, .status and .node of a list_devices call.
Filter(type, status, node) == [type |-> type, status |-> status, node |-> node]
NoFilter == Filter(NULL, NULL, NULL)
Request(id, method, params, tool, deviceId, argName) ==
    [id |-> id, method |-> method, params |-> params, tool |-> tool,
     deviceId |-> deviceId, argName |-> argName, filter |-> NoFilter]
NoRequest == Request(NULL, NULL, FALSE, NULL, NULL, NULL)
\* requests of the non-tool methods
PlainRequests ==
    {Request(id, m, FALSE, NULL, NULL, NULL) : id \in RequestIds, m \in Methods}
\* tools/call requests for the tools in `tools` with a deviceId among `argIds`
ToolRequests(ids, tools, argIds) ==
    {Request(id, "tools/call", TRUE, t, d, NULL) :
        id \in ids, t \in tools, d \in argIds}
    \cup {Request(id, "tools/call", TRUE, t, d, "mytool") :
            id \in ids, t \in tools \cap {"use_custom_tool"}, d \in argIds}
\* tools/call requests for list_devices with the filters in `filters`
ListRequests(ids, filters) ==
    {[Request(id, "tools/call", TRUE, "list_devices", NULL, NULL) EXCEPT !.filter = f] :
        id \in ids, f \in filters}
\* what a transport reads: an empty body or line, text that is not JSON, or a request
Body(kind, req) == [kind |-> kind, req |-> req]
BadBodies == {Body("blank", NoRequest), Body("bad", NoRequest)}
JsonBodies(requests) == {Body("json", req) : req \in requests}

VARIABLES
    wsState,                \* per connection: "idle", "open", "closed"
    connDeviceId,           \* per connection: the closure variable deviceId
    devices,                \* Map<deviceId, record> in insertion order
    aggregatedNodeCatalog,  \* Map<nodeType, entry> in insertion order
    fetches,                \* per connection: the registerDevice handlers awaiting
                            \* getState, each by its local registration.id
    regCount,               \* registrations handled so far
    sseState,               \* per SSE stream: "idle", "open", "closed"
    sseConnections,         \* keys of Map<sessionId, { res, log }>
    stdio,                  \* the process and its stdin: running, parse errors logged
    reqs                    \* per request: its handler's position, locals and outcome

registryVars == <<wsState, connDeviceId, devices, aggregatedNodeCatalog, fetches, regCount>>
vars == <<wsState, connDeviceId, devices, aggregatedNodeCatalog, fetches, regCount,
          sseState, sseConnections, stdio, reqs>>

\* requests whose handlers may run (and overlap) in one run
Slots == {"r1", "r2"}

\* the sequence `seq` without its i-th element
Remove(seq, i) == [j \in 1..(Len(seq) - 1) |-> IF j < i THEN seq[j] ELSE seq[j + 1]]

\* ------------------------------------------------------------ Map helpers
\* devices.has(id)
Has(devs, id) == \E i \in 1..Len(devs) : devs[i].id = id
\* index of key id (only when present)
IndexOf(devs, id) == CHOOSE i \in 1..Len(devs) : devs[i].id = id
\* the value standing for `undefined` where a device record is expected
NoDevice ==
    [id |-> NULL, conn |-> NoConn, type |-> NULL, status |-> NULL, nodes |-> << >>,
     nodeCatalog |-> << >>]
\* devices.get(id); undefined when absent
Get(devs, id) == IF Has(devs, id) THEN devs[IndexOf(devs, id)] ELSE NoDevice
\* devices.set(id, rec): an existing key keeps its place, a new key is appended
MapSet(devs, id, rec) ==
    IF Has(devs, id)
    THEN [i \in 1..Len(devs) |-> IF devs[i].id = id THEN rec ELSE devs[i]]
    ELSE Append(devs, rec)
\* devices.delete(id)
MapDelete(devs, id) ==
    IF Has(devs, id)
    THEN LET k == IndexOf(devs, id)
         IN [i \in 1..(Len(devs) - 1) |-> IF i < k THEN devs[i] ELSE devs[i + 1]]
    ELSE devs
Keys(devs) == {devs[i].id : i \in 1..Len(devs)}

\* a lookup that falls back to the only registered device when the id is not a key
getDeviceOrOnly(deviceId) ==
    IF ~Falsy(deviceId) /\ Has(devices, deviceId) THEN Get(devices, deviceId)
    ELSE IF Len(devices) = 1 THEN devices[1] ELSE NoDevice

\* getDevice(deviceId): no fallback
getDevice(deviceId) == IF Falsy(deviceId) THEN NoDevice ELSE Get(devices, deviceId)

\* ------------------------------------------------- rebuildAggregatedCatalog
AggHas(agg, type) == \E i \in 1..Len(agg) : agg[i].type = type

\* the body of the inner loop, for one node of one device's catalog
AddNode(agg, node, deviceId) ==
    IF Falsy(node.type) THEN agg
    ELSE IF AggHas(agg, node.type)
    THEN [i \in 1..Len(agg) |->
            IF agg[i].type = node.type
            THEN [agg[i] EXCEPT !.devices = Append(@, deviceId)]
            ELSE agg[i]]
    ELSE Append(agg, [type |-> node.type,
                      category |-> IF Falsy(node.category) THEN "unknown" ELSE node.category,
                      description |-> IF Falsy(node.description) THEN "" ELSE node.description,
                      devices |-> <<deviceId>>])

RECURSIVE AddCatalog(_, _, _)
AddCatalog(agg, catalog, deviceId) ==
    IF catalog = << >> THEN agg
    ELSE AddCatalog(AddNode(agg, Head(catalog), deviceId), Tail(catalog), deviceId)

RECURSIVE AddDevices(_, _)
AddDevices(agg, devs) ==
    IF devs = << >> THEN agg
    ELSE AddDevices(AddCatalog(agg, Head(devs).nodeCatalog, Head(devs).id), Tail(devs))

\* aggregatedNodeCatalog.clear(), then every device's catalog in Map order
rebuildAggregatedCatalog(devs) == AddDevices(<< >>, devs)

\* ------------------------------------------------------------- dispatcher
\* A request whose handler has not been invoked.
FreeReq ==
    [st |-> "free", transport |-> NULL, session |-> NULL, bodyKind |-> NULL,
     req |-> NoRequest, phase |-> NULL, conn |-> NoConn, dev |-> NULL, devType |-> NULL,
     rpc |-> NULL, pos |-> 0, results |-> << >>, list |-> << >>, first |-> NoReply,
     calls |-> << >>, snap |-> << >>, dirty |-> FALSE,
     toolResult |-> NoToolResult, response |-> NoResponse, out |-> NoOut]

\* a device list that leaves out the record registered last
DeviceListButLast(devs) ==
    [i \in 1..(Len(devs) - 1) |-> [id |-> devs[i].id, type |-> devs[i].type]]
\* the { id, name, type } list of requireDevice and get_started
DeviceList(devs) == [i \in 1..Len(devs) |-> [id |-> devs[i].id, type |-> devs[i].type]]

\* MCPHandler.requireDevice: { error, content } or { error: false, device }
requireDevice(deviceId) ==
    IF Falsy(deviceId)
    THEN IF Len(devices) = 0
         THEN [error |-> TRUE, device |-> NoDevice, content |-> ConnectAdvisory]
         ELSE [error |-> TRUE, device |-> NoDevice,
               content |-> ChooseAdvisory(DeviceList(devices))]
    ELSE IF getDevice(deviceId) = NoDevice
         THEN [error |-> TRUE, device |-> NoDevice, content |-> NotFoundAdvisory(deviceId)]
         ELSE [error |-> FALSE, device |-> getDevice(deviceId), content |-> NoAdv]

\* getAggregatedCatalog: the aggregate grouped by category
GroupNode(groups, node) ==
    LET entry == [type |-> node.type, description |-> node.description,
                  devices |-> node.devices]
    IN IF \E i \in 1..Len(groups) : groups[i].category = node.category
       THEN [i \in 1..Len(groups) |->
                IF groups[i].category = node.category
                THEN [groups[i] EXCEPT !.nodes = Append(@, entry)]
                ELSE groups[i]]
       ELSE Append(groups, [category |-> node.category, nodes |-> <<entry>>])
RECURSIVE GroupAll(_, _)
GroupAll(groups, agg) ==
    IF agg = << >> THEN groups ELSE GroupAll(GroupNode(groups, Head(agg)), Tail(agg))
getAggregatedCatalog == GroupAll(<< >>, aggregatedNodeCatalog)

\* a transport that writes the message event to whichever stream is in the table
TransportOutAnyStream(r, resp) ==
    [r EXCEPT !.st = "done", !.phase = NULL, !.conn = NoConn, !.response = resp,
              !.out = CASE r.transport = "stdio" ->
                             [NoOut EXCEPT !.stdout = resp.present]
                        [] r.transport = "mcp" ->
                             [NoOut EXCEPT !.status = IF resp.present THEN 200 ELSE 202,
                                           !.body = IF resp.present THEN "response" ELSE "none"]
                        [] r.transport = "message" ->
                             [NoOut EXCEPT !.status = 202,
                                           !.sse = IF ~resp.present THEN NULL
                                                   ELSE IF sseConnections = {} THEN r.session
                                                   ELSE CHOOSE x \in sseConnections : TRUE]
                        [] OTHER -> NoOut]
\* a transport that holds a response back while another request POSTed on the
\* same session is still being handled
TransportOutQueued(r, resp) ==
    [r EXCEPT !.st = "done", !.phase = NULL, !.conn = NoConn, !.response = resp,
              !.out = CASE r.transport = "stdio" ->
                             [NoOut EXCEPT !.stdout = resp.present]
                        [] r.transport = "mcp" ->
                             [NoOut EXCEPT !.status = IF resp.present THEN 200 ELSE 202,
                                           !.body = IF resp.present THEN "response" ELSE "none"]
                        [] r.transport = "message" ->
                             [NoOut EXCEPT !.status = 202,
                                           !.sse = IF resp.present
                                                      /\ ~\E t \in Slots :
                                                            /\ reqs[t].st = "await"
                                                            /\ reqs[t].session = r.session
                                                            /\ reqs[t].req # r.req
                                                   THEN r.session ELSE NULL]
                        [] OTHER -> NoOut]
\* The transport's part after handleRequest returned `resp` (rl.on('line'),
\* POST /mcp, POST /message).
TransportOut(r, resp) ==
    [r EXCEPT !.st = "done", !.phase = NULL, !.conn = NoConn, !.response = resp,
              !.out = CASE r.transport = "stdio" ->
                             [NoOut EXCEPT !.stdout = resp.present]
                        [] r.transport = "mcp" ->
                             [NoOut EXCEPT !.status = IF resp.present THEN 200 ELSE 202,
                                           !.body = IF resp.present THEN "response" ELSE "none"]
                        [] r.transport = "message" ->
                             [NoOut EXCEPT !.status = 202,
                                           !.sse = IF resp.present THEN r.session ELSE NULL]
                        [] OTHER -> NoOut]

\* a dispatcher that answers a result whether or not the request has an id
MethodFinishAlways(r, result) == TransportOut(r, ResultResponse(r.req.id, result))
\* a catch that answers an error whether or not the request has an id
MethodThrowAlways(r, msg) == TransportOut(r, ErrorResponse(r.req.id, msg))

\* handleRequest after the switch: a result, answered only when id !== undefined
MethodFinish(r, result) ==
    TransportOut(r, IF r.req.id # NULL THEN ResultResponse(r.req.id, result) ELSE NoResponse)
\* handleRequest's catch
MethodThrow(r, msg) ==
    TransportOut(r, IF r.req.id # NULL THEN ErrorResponse(r.req.id, msg) ELSE NoResponse)
\* a notification case that falls through to the common answer, as ping does
ReturnEmptyResult(r) == MethodFinish(r, PingResult)
\* case 'notifications/initialized': return null
ReturnNull(r) == TransportOut(r, NoResponse)

\* a /func handler that answers 200 whatever the tool result
ToolFinishFuncOk(r, tr) ==
    IF r.transport = "func"
    THEN [r EXCEPT !.st = "done", !.phase = NULL, !.conn = NoConn, !.toolResult = tr,
                   !.out = [NoOut EXCEPT !.status = 200, !.body = "toolresult"]]
    ELSE MethodFinish([r EXCEPT !.toolResult = tr], ToolCallResult(tr))
\* handleToolCall returned `tr`: to handleRequest, or to POST /func's handler
ToolFinish(r, tr) ==
    IF r.transport = "func"
    THEN [r EXCEPT !.st = "done", !.phase = NULL, !.conn = NoConn, !.toolResult = tr,
                   !.out = [NoOut EXCEPT !.status = IF tr.isError THEN 400 ELSE 200,
                                         !.body = "toolresult"]]
    ELSE MethodFinish([r EXCEPT !.toolResult = tr], ToolCallResult(tr))

\* `await device.peer.methods.<rpc>(...)`: the call is issued and the handler suspends
Call(r, phase, conn, deviceId, type, rpc) ==
    [r EXCEPT !.st = "await", !.phase = phase, !.conn = conn, !.dev = deviceId,
              !.devType = type, !.rpc = rpc,
              !.calls = Append(@, [conn |-> conn, dev |-> deviceId, rpc |-> rpc,
                                   outcome |-> "pending"])]
\* the pending call of `r` settled: `outcome` is "resolved" or "rejected"
Settled(r, outcome) == [r EXCEPT !.calls[Len(r.calls)].outcome = outcome]

\* a loop that stops after the first device
BroadcastFirstOnly(r) ==
    IF r.pos < Len(devices) /\ r.pos = 0
    THEN LET d == devices[r.pos + 1]
         IN Call([r EXCEPT !.pos = @ + 1], "broadcast", d.conn, d.id, d.type, RpcOf(r.req.tool))
    ELSE ToolFinish(r, ToolOk(BroadcastRet(r.results)))
\* the `for (const [id, device] of devices)` loop of toolDeploy / toolSendMcpMessage:
\* the Map iterator is live, pos entries are behind it
BroadcastNext(r) ==
    IF r.pos < Len(devices)
    THEN LET d == devices[r.pos + 1]
         IN Call([r EXCEPT !.pos = @ + 1], "broadcast", d.conn, d.id, d.type, RpcOf(r.req.tool))
    ELSE ToolFinish(r, ToolOk(BroadcastRet(r.results)))

\* reg.nodes?.includes(node)
Includes(nodes, node) == \E i \in 1..Len(nodes) : nodes[i] = node
\* a device goes on to the result when any one of the supplied filters accepts it
PassesAny(d, filter) ==
    \/ Falsy(filter.type) /\ Falsy(filter.status) /\ Falsy(filter.node)
    \/ ~Falsy(filter.type) /\ d.type = filter.type
    \/ ~Falsy(filter.status) /\ d.status = filter.status
    \/ ~Falsy(filter.node) /\ Includes(d.nodes, filter.node)
\* the three `continue` tests of toolListDevices: d is not skipped
Passes(d, filter) ==
    /\ ~(~Falsy(filter.type) /\ d.type # filter.type)
    /\ ~(~Falsy(filter.status) /\ d.status # filter.status)
    /\ ~(~Falsy(filter.node) /\ ~Includes(d.nodes, filter.node))
\* a loop whose filters are alternatives
ListNextAnyFilter(r) ==
    LET rest == {j \in (r.pos + 1)..Len(devices) : PassesAny(devices[j], r.req.filter)}
    IN IF rest # {}
       THEN LET j == CHOOSE j \in rest : \A k \in rest : j <= k
                d == devices[j]
            IN Call([r EXCEPT !.pos = j], "list", d.conn, d.id, d.type, "getCustomTools")
       ELSE ToolFinish(r, ToolOk(ListRet(r.list)))
\* the loop of toolListDevices: the iterator moves past the devices that are
\* skipped and stops at the next one to call
ListNext(r) ==
    LET rest == {j \in (r.pos + 1)..Len(devices) : Passes(devices[j], r.req.filter)}
    IN IF rest # {}
       THEN LET j == CHOOSE j \in rest : \A k \in rest : j <= k
                d == devices[j]
            IN Call([r EXCEPT !.pos = j], "list", d.conn, d.id, d.type, "getCustomTools")
       ELSE ToolFinish(r, ToolOk(ListRet(r.list)))

\* where a tool's handler resumes after its first remote call
PhaseOf(tool) ==
    CASE tool = "get_device_details" -> "details"
      [] tool = "get_started" -> "started"
      [] tool = "use_custom_tool" -> "custom"
      [] OTHER -> "single"

\* a tool implementation that throws when requireDevice reports an error
RequireOrThrow(r) ==
    LET rd == requireDevice(r.req.deviceId)
    IN IF rd.error THEN ToolFinish(r, ToolErr(Msg("device required", r.req.deviceId)))
       ELSE IF r.req.tool = "use_custom_tool" /\ Falsy(r.req.argName)
       THEN ToolFinish(r, ToolOk(NameRequiredRet))
       ELSE Call(r, PhaseOf(r.req.tool), rd.device.conn, rd.device.id, rd.device.type,
                 RpcOf(r.req.tool))

\* a tool implementation after `const { error, device, content } = requireDevice(...)`
RequireThenCall(r) ==
    LET rd == requireDevice(r.req.deviceId)
    IN IF rd.error THEN ToolFinish(r, ToolOk(ContentRet(rd.content)))
       ELSE IF r.req.tool = "use_custom_tool" /\ Falsy(r.req.argName)
       THEN ToolFinish(r, ToolOk(NameRequiredRet))
       ELSE Call(r, PhaseOf(r.req.tool), rd.device.conn, rd.device.id, rd.device.type,
                 RpcOf(r.req.tool))

\* a handleToolCall whose get_started resolves a device on every path
handleToolCallStartedRequires(r) ==
    LET tool == r.req.tool
    IN CASE tool = "list_devices" -> ListNext(r)
         [] tool \in BroadcastTools /\ r.req.deviceId = "all" ->
              BroadcastNext([r EXCEPT !.snap = [i \in 1..Len(devices) |-> devices[i].id]])
         [] tool \in DeviceTools \/ tool = "get_started" -> RequireThenCall(r)
         [] OTHER -> ToolFinish(r, ToolErr(Msg("Unknown tool", tool)))
\* MCPHandler.handleToolCall, up to the first await or the return
handleToolCall(r) ==
    LET tool == r.req.tool
    IN CASE tool = "list_devices" -> ListNext(r)
         [] tool = "get_started" /\ Falsy(r.req.deviceId) ->
              ToolFinish(r, ToolOk(OverviewRet(Len(devices),
                                               IF Len(devices) = 0 THEN << >>
                                               ELSE DeviceList(devices),
                                               IF Len(devices) = 0 THEN << >>
                                               ELSE getAggregatedCatalog)))
         [] tool \in BroadcastTools /\ r.req.deviceId = "all" ->
              \* snap: the keys of the registry as the loop starts
              BroadcastNext([r EXCEPT !.snap = [i \in 1..Len(devices) |-> devices[i].id]])
         [] tool \in DeviceTools \/ tool = "get_started" -> RequireThenCall(r)
         [] OTHER -> ToolFinish(r, ToolErr(Msg("Unknown tool", tool)))

\* a dispatcher that answers a method it does not know with an empty result
handleRequestUnknownAsPing(r) ==
    LET method == r.req.method
    IN CASE method = "initialize" -> MethodFinish(r, InitializeResult)
         [] method = "notifications/initialized" -> ReturnNull(r)
         [] method = "tools/list" -> MethodFinish(r, ToolsListResult)
         [] method = "tools/call" ->
              IF r.req.params THEN handleToolCall(r)
              ELSE MethodThrow(r, Msg("Cannot destructure property of undefined", NULL))
         [] OTHER -> MethodFinish(r, PingResult)
\* MCPHandler.handleRequest, up to the first await or the return
handleRequest(r) ==
    LET method == r.req.method
    IN CASE method = "initialize" -> MethodFinish(r, InitializeResult)
         [] method = "notifications/initialized" -> ReturnNull(r)
         [] method = "tools/list" -> MethodFinish(r, ToolsListResult)
         [] method = "tools/call" ->
              IF r.req.params THEN handleToolCall(r)
              ELSE MethodThrow(r, Msg("Cannot destructure property of undefined", NULL))
         [] method = "ping" -> MethodFinish(r, PingResult)
         [] OTHER -> MethodThrow(r, Msg("Unknown method", method))

\* the awaited remote call resolved with `reply`
Resolved(r, reply) ==
    LET q == Settled(r, "resolved")
    IN CASE q.phase = "single" -> ToolFinish(q, ToolOk(TaggedRet(q.dev, reply)))
         [] q.phase = "custom" -> ToolFinish(q, ToolOk(CustomRet(q.dev, reply)))
         [] q.phase = "started" ->
              ToolFinish(q, ToolOk(StartedRet(q.dev, Len(devices), reply)))
         [] q.phase = "details" ->
              Call([q EXCEPT !.first = reply], "details2", q.conn, q.dev, q.devType,
                   "getCustomTools")
         [] q.phase = "details2" -> ToolFinish(q, ToolOk(DetailsRet(q.dev, q.first, TRUE)))
         [] q.phase = "broadcast" ->
              BroadcastNext([q EXCEPT !.results =
                                        Append(@, BroadcastEntry(q.dev, TRUE, reply, NoMsg))])
         [] q.phase = "list" ->
              ListNext([q EXCEPT !.list = Append(@, ListEntry(q.dev, q.devType, TRUE))])

\* a rejection that escapes handleToolCall and reaches handleRequest's catch
RejectedEscapes(r, msg) ==
    LET q == Settled(r, "rejected")
    IN CASE q.phase \in {"single", "custom", "started", "details"} ->
              MethodThrow([q EXCEPT !.toolResult = NoToolResult], msg)
         [] q.phase = "details2" -> ToolFinish(q, ToolOk(DetailsRet(q.dev, q.first, FALSE)))
         [] q.phase = "broadcast" ->
              BroadcastNext([q EXCEPT !.results =
                                        Append(@, BroadcastEntry(q.dev, FALSE, NoReply, msg))])
         [] q.phase = "list" ->
              ListNext([q EXCEPT !.list = Append(@, ListEntry(q.dev, q.devType, FALSE))])
\* a bridge that issues the call again when it was rejected
RejectedRetries(r, msg) ==
    LET q == Settled(r, "rejected")
    IN CASE q.phase \in {"single", "custom", "started", "details"} ->
              Call(q, q.phase, q.conn, q.dev, q.devType, q.rpc)
         [] q.phase = "details2" -> ToolFinish(q, ToolOk(DetailsRet(q.dev, q.first, FALSE)))
         [] q.phase = "broadcast" ->
              BroadcastNext([q EXCEPT !.results =
                                        Append(@, BroadcastEntry(q.dev, FALSE, NoReply, msg))])
         [] q.phase = "list" ->
              ListNext([q EXCEPT !.list = Append(@, ListEntry(q.dev, q.devType, FALSE))])
\* the awaited remote call rejected with `msg`
Rejected(r, msg) ==
    LET q == Settled(r, "rejected")
    IN CASE q.phase \in {"single", "custom", "started", "details"} ->
              ToolFinish(q, ToolErr(msg))
         [] q.phase = "details2" -> ToolFinish(q, ToolOk(DetailsRet(q.dev, q.first, FALSE)))
         [] q.phase = "broadcast" ->
              BroadcastNext([q EXCEPT !.results =
                                        Append(@, BroadcastEntry(q.dev, FALSE, NoReply, msg))])
         [] q.phase = "list" ->
              ListNext([q EXCEPT !.list = Append(@, ListEntry(q.dev, q.devType, FALSE))])

\* The record of a completed request is what the server just answered; the
\* server keeps nothing of it, and the next step of anything drops it.
Sweep(rs) == [s \in Slots |-> IF rs[s].st = "done" THEN FreeReq ELSE rs[s]]

\* devices.delete of the entry at index k, seen by the live Map iterators
AfterDelete(rs, k) ==
    [s \in Slots |->
        IF rs[s].st = "await" /\ rs[s].phase \in {"broadcast", "list"} /\ rs[s].pos >= k
        THEN [rs[s] EXCEPT !.pos = @ - 1]
        ELSE rs[s]]

\* devices.set / devices.delete happened while a loop over devices is suspended
Mutated(rs) ==
    [s \in Slots |->
        IF rs[s].st = "await" /\ rs[s].phase \in {"broadcast", "list"}
        THEN [rs[s] EXCEPT !.dirty = TRUE]
        ELSE rs[s]]

\* --------------------------------------------------------------- registry
\* the record both registration handlers store (registration.nodes is [] when
\* the device advertises none)
NewDevice(deviceId, c, type) ==
    [id |-> deviceId, conn |-> c, type |-> type, status |-> "online", nodes |-> << >>,
     nodeCatalog |-> << >>]
\* the argument of registerDevice: id and type may be absent (NULL) or empty,
\* nodes is the advertised list of node names (<< >> also when absent)
Info(id, type, nodes) == [id |-> id, type |-> type, nodes |-> nodes]

Init ==
    /\ wsState = [c \in Conns |-> "idle"]
    /\ connDeviceId = [c \in Conns |-> NULL]
    /\ devices = << >>
    /\ aggregatedNodeCatalog = << >>
    /\ fetches = [c \in Conns |-> << >>]
    /\ regCount = 0
    /\ sseState = [x \in Sessions |-> "idle"]
    /\ sseConnections = {}
    /\ stdio = [running |-> TRUE, skipped |-> FALSE]
    /\ reqs = [s \in Slots |-> FreeReq]

\* wss.on('connection')
WsConnect(c) ==
    /\ stdio.running /\ UNCHANGED stdio
    /\ wsState[c] = "idle"
    /\ wsState' = [wsState EXCEPT ![c] = "open"]
    /\ reqs' = Sweep(reqs)
    /\ UNCHANGED <<connDeviceId, devices, aggregatedNodeCatalog, fetches, regCount>>
    /\ UNCHANGED <<sseState, sseConnections>>

\* peer.addHandler('registerDevice'), up to the await of getState
RegisterDeviceInfo(c, info, gen) ==
    /\ stdio.running /\ UNCHANGED stdio
    /\ wsState[c] = "open"
    /\ regCount < MaxRegs
    /\ LET deviceId == IF Falsy(info.id) THEN gen ELSE info.id
           type == IF Falsy(info.type) THEN "unknown" ELSE info.type
       IN /\ connDeviceId' = [connDeviceId EXCEPT ![c] = deviceId]
          /\ devices' = MapSet(devices, deviceId,
                               [NewDevice(deviceId, c, type) EXCEPT !.nodes = info.nodes])
          /\ fetches' = [fetches EXCEPT ![c] = Append(@, deviceId)]
    /\ regCount' = regCount + 1
    /\ reqs' = Mutated(Sweep(reqs))
    /\ UNCHANGED <<wsState, aggregatedNodeCatalog, sseState, sseConnections>>

\* registerDevice called with an info that has no type and no nodes
RegisterDevice(c, infoId, gen) == RegisterDeviceInfo(c, Info(infoId, NULL, << >>), gen)

\* peer.addHandler('registerClient'); returns RegistrationReturn(c)
RegisterClient(c, gen) ==
    /\ stdio.running /\ UNCHANGED stdio
    /\ wsState[c] = "open"
    /\ regCount < MaxRegs
    /\ connDeviceId' = [connDeviceId EXCEPT ![c] = gen]
    /\ devices' = MapSet(devices, gen, NewDevice(gen, c, "browser"))
    /\ regCount' = regCount + 1
    /\ reqs' = Mutated(Sweep(reqs))
    /\ UNCHANGED <<wsState, aggregatedNodeCatalog, fetches, sseState, sseConnections>>

\* `return { success: true, deviceId }` of both registration handlers: the
\* closure variable deviceId of the connection, as it is when the handler returns
RegistrationReturn(c) == [success |-> TRUE, deviceId |-> connDeviceId[c]]

\* registerDevice resumes: getState resolved with `state`; the handler then
\* returns RegistrationReturn(c)
GetStateResolve(c, state) ==
    /\ stdio.running /\ UNCHANGED stdio
    /\ wsState[c] = "open"
    /\ \E i \in 1..Len(fetches[c]) : fetches' = [fetches EXCEPT ![c] = Remove(@, i)]
    /\ IF state.has /\ Has(devices, connDeviceId[c])
       THEN LET devs == [devices EXCEPT ![IndexOf(devices, connDeviceId[c])].nodeCatalog =
                                            state.nodeCatalog]
            IN /\ devices' = devs
               /\ aggregatedNodeCatalog' = rebuildAggregatedCatalog(devs)
       ELSE \* no catalog, or devices.get(deviceId) is undefined: TypeError, caught
            UNCHANGED <<devices, aggregatedNodeCatalog>>
    /\ reqs' = Sweep(reqs)
    /\ UNCHANGED <<wsState, connDeviceId, regCount, sseState, sseConnections>>

\* a catch that unregisters the device whose catalog could not be fetched
GetStateRejectDrops(c) ==
    /\ stdio.running /\ UNCHANGED stdio
    /\ \E i \in 1..Len(fetches[c]) : fetches' = [fetches EXCEPT ![c] = Remove(@, i)]
    /\ IF Has(devices, connDeviceId[c])
       THEN LET devs == MapDelete(devices, connDeviceId[c])
            IN /\ devices' = devs
               /\ aggregatedNodeCatalog' = rebuildAggregatedCatalog(devs)
               /\ reqs' = AfterDelete(Mutated(Sweep(reqs)),
                                       IndexOf(devices, connDeviceId[c]))
       ELSE /\ reqs' = Sweep(reqs)
            /\ UNCHANGED <<devices, aggregatedNodeCatalog>>
    /\ UNCHANGED <<wsState, connDeviceId, regCount, sseState, sseConnections>>
\* registerDevice resumes: getState rejected (logged only); the handler then
\* returns RegistrationReturn(c)
GetStateReject(c) ==
    /\ stdio.running /\ UNCHANGED stdio
    /\ \E i \in 1..Len(fetches[c]) : fetches' = [fetches EXCEPT ![c] = Remove(@, i)]
    /\ reqs' = Sweep(reqs)
    /\ UNCHANGED <<wsState, connDeviceId, devices, aggregatedNodeCatalog, regCount>>
    /\ UNCHANGED <<sseState, sseConnections>>

\* ws.on('close')
WsClose(c) ==
    /\ stdio.running /\ UNCHANGED stdio
    /\ wsState[c] = "open"
    /\ wsState' = [wsState EXCEPT ![c] = "closed"]
    /\ IF ~Falsy(connDeviceId[c]) /\ Has(devices, connDeviceId[c])
       THEN LET devs == MapDelete(devices, connDeviceId[c])
            IN /\ devices' = devs
               /\ aggregatedNodeCatalog' = rebuildAggregatedCatalog(devs)
               /\ reqs' = AfterDelete(Mutated(Sweep(reqs)),
                                       IndexOf(devices, connDeviceId[c]))
       ELSE /\ reqs' = Sweep(reqs)
            /\ UNCHANGED <<devices, aggregatedNodeCatalog>>
    /\ UNCHANGED <<connDeviceId, fetches, regCount, sseState, sseConnections>>

\* ------------------------------------------------------------- transports
\* GET /sse with Accept: text/event-stream
SseOpen(x) ==
    /\ stdio.running /\ UNCHANGED stdio
    /\ sseState[x] = "idle"
    /\ sseState' = [sseState EXCEPT ![x] = "open"]
    /\ sseConnections' = sseConnections \cup {x}
    /\ reqs' = Sweep(reqs)
    /\ UNCHANGED registryVars

\* a close handler that leaves the session in the table
SseCloseKeeps(x) ==
    /\ stdio.running /\ UNCHANGED stdio
    /\ sseState[x] = "open"
    /\ sseState' = [sseState EXCEPT ![x] = "closed"]
    /\ sseConnections' = sseConnections
    /\ reqs' = Sweep(reqs)
    /\ UNCHANGED registryVars
\* req.on('close') of the SSE request
SseClose(x) ==
    /\ stdio.running /\ UNCHANGED stdio
    /\ sseState[x] = "open"
    /\ sseState' = [sseState EXCEPT ![x] = "closed"]
    /\ sseConnections' = sseConnections \ {x}
    /\ reqs' = Sweep(reqs)
    /\ UNCHANGED registryVars

\* a request as its transport's handler first sees it
Arrived(transport, session, body) ==
    [FreeReq EXCEPT !.transport = transport, !.session = session,
                    !.bodyKind = body.kind, !.req = body.req]

\* a line handler that ends the process on a line that is not JSON
StdioLineFatal(s, body) ==
    /\ stdio.running
    /\ reqs[s].st = "free"
    /\ LET r == Arrived("stdio", NULL, body)
       IN reqs' = [Sweep(reqs) EXCEPT ![s] =
                     IF body.kind = "json" THEN handleRequest(r)
                     ELSE [r EXCEPT !.st = "done"]]
    /\ stdio' = [running |-> stdio.running /\ body.kind # "bad",
                 skipped |-> stdio.skipped \/ body.kind = "bad"]
    /\ UNCHANGED <<registryVars, sseState, sseConnections>>
\* rl.on('line')
StdioLine(s, body) ==
    /\ stdio.running
    /\ reqs[s].st = "free"
    /\ LET r == Arrived("stdio", NULL, body)
       IN reqs' = [Sweep(reqs) EXCEPT ![s] =
                     IF body.kind = "json" THEN handleRequest(r)
                     ELSE \* an empty line is skipped, a JSON.parse error is logged
                          [r EXCEPT !.st = "done"]]
    \* the catch logs 'Error parsing stdin message' and returns
    /\ stdio' = [stdio EXCEPT !.skipped = @ \/ body.kind = "bad"]
    /\ UNCHANGED <<registryVars, sseState, sseConnections>>

\* rl.on('close'): stdin ended, process.exit(0)
StdinClose ==
    /\ stdio.running
    /\ stdio' = [stdio EXCEPT !.running = FALSE]
    /\ UNCHANGED <<registryVars, sseState, sseConnections, reqs>>

\* a handler that takes an empty body for a notification and answers 202
PostMcpBlankAccepted(s, body) ==
    /\ stdio.running /\ UNCHANGED stdio
    /\ reqs[s].st = "free"
    /\ LET r == Arrived("mcp", NULL, body)
       IN reqs' = [Sweep(reqs) EXCEPT ![s] =
                     IF body.kind = "json" THEN handleRequest(r)
                     ELSE [r EXCEPT !.st = "done",
                                    !.out = [NoOut EXCEPT !.status =
                                                IF body.kind = "blank" THEN 202 ELSE 400,
                                                          !.body = "error"]]]
    /\ UNCHANGED <<registryVars, sseState, sseConnections>>
\* POST /mcp
PostMcp(s, body) ==
    /\ stdio.running /\ UNCHANGED stdio
    /\ reqs[s].st = "free"
    /\ LET r == Arrived("mcp", NULL, body)
       IN reqs' = [Sweep(reqs) EXCEPT ![s] =
                     IF body.kind = "json" THEN handleRequest(r)
                     ELSE [r EXCEPT !.st = "done",
                                    !.out = [NoOut EXCEPT !.status = 400, !.body = "error"]]]
    /\ UNCHANGED <<registryVars, sseState, sseConnections>>

\* a handler that reads and dispatches the body without looking up the session
PostMessageUnchecked(s, session, body) ==
    /\ stdio.running /\ UNCHANGED stdio
    /\ reqs[s].st = "free"
    /\ LET r == Arrived("message", session, body)
           bad == [NoOut EXCEPT !.status = 400, !.body = "error"]
       IN reqs' = [Sweep(reqs) EXCEPT ![s] =
                     IF body.kind # "json"
                     THEN [r EXCEPT !.st = "done", !.out = bad]
                     ELSE handleRequest(r)]
    /\ UNCHANGED <<registryVars, sseState, sseConnections>>
\* a server that takes up no request while another is waiting for its device
PostMessageOneAtATime(s, session, body) ==
    /\ stdio.running /\ UNCHANGED stdio
    /\ reqs[s].st = "free"
    /\ \A t \in Slots : reqs[t].st # "await"
    /\ LET r == Arrived("message", session, body)
           bad == [NoOut EXCEPT !.status = 400, !.body = "error"]
       IN reqs' = [Sweep(reqs) EXCEPT ![s] =
                     IF session \notin sseConnections
                     THEN [FreeReq EXCEPT !.st = "done", !.transport = "message",
                                          !.session = session, !.out = bad]
                     ELSE IF body.kind # "json"
                     THEN [r EXCEPT !.st = "done", !.out = bad]
                     ELSE handleRequest(r)]
    /\ UNCHANGED <<registryVars, sseState, sseConnections>>
\* POST /message?sessionId=<session>
PostMessage(s, session, body) ==
    /\ stdio.running /\ UNCHANGED stdio
    /\ reqs[s].st = "free"
    /\ LET r == Arrived("message", session, body)
           bad == [NoOut EXCEPT !.status = 400, !.body = "error"]
       IN reqs' = [Sweep(reqs) EXCEPT ![s] =
                     IF session \notin sseConnections
                     THEN \* answered before the body is read
                          [FreeReq EXCEPT !.st = "done", !.transport = "message",
                                          !.session = session, !.out = bad]
                     ELSE IF body.kind # "json"
                     THEN [r EXCEPT !.st = "done", !.out = bad]
                     ELSE handleRequest(r)]
    /\ UNCHANGED <<registryVars, sseState, sseConnections>>

\* POST /func/<toolName>; an empty body stands for {}
PostFunc(s, body) ==
    /\ stdio.running /\ UNCHANGED stdio
    /\ reqs[s].st = "free"
    /\ LET r == Arrived("func", NULL, body)
       IN reqs' = [Sweep(reqs) EXCEPT ![s] =
                     IF body.kind = "bad"
                     THEN [r EXCEPT !.st = "done",
                                    !.out = [NoOut EXCEPT !.status = 400, !.body = "error"]]
                     ELSE handleToolCall(r)]
    /\ UNCHANGED <<registryVars, sseState, sseConnections>>

\* a remote call's promise resolves: the device answered over its open socket
RemoteResolve(s, reply) ==
    /\ stdio.running /\ UNCHANGED stdio
    /\ reqs[s].st = "await"
    /\ wsState[reqs[s].conn] = "open"
    /\ reqs' = [Sweep(reqs) EXCEPT ![s] = Resolved(reqs[s], reply)]
    /\ UNCHANGED <<registryVars, sseState, sseConnections>>

\* a remote call's promise rejects
RemoteReject(s) ==
    /\ stdio.running /\ UNCHANGED stdio
    /\ reqs[s].st = "await"
    /\ reqs' = [Sweep(reqs) EXCEPT ![s] = Rejected(reqs[s], RemoteError)]
    /\ UNCHANGED <<registryVars, sseState, sseConnections>>

\* ------------------------------------------------------------ specifications
\* the registry's steps, for the given connections, info.id values, generated
\* ids and getState replies
RegistrySteps(conns, infoIds, gens, states) ==
    \/ \E c \in conns : WsConnect(c)
    \/ \E c \in conns, infoId \in infoIds, gen \in gens : RegisterDevice(c, infoId, gen)
    \/ \E c \in conns, gen \in gens : RegisterClient(c, gen)
    \/ \E c \in conns, state \in states : GetStateResolve(c, state)
    \/ \E c \in conns : GetStateReject(c)
    \/ \E c \in conns : WsClose(c)

\* the registry alone: registrations, catalog fetches, disconnects
RegistryNext == RegistrySteps(Conns, InfoIds, generateDeviceId, StateReplies)
SpecRegistry == Init /\ [][RegistryNext]_vars

\* the steps of the remote calls of the requests in `slots`, answered from `replies`
RemoteSteps(slots, replies) ==
    \/ \E s \in slots, reply \in replies : RemoteResolve(s, reply)
    \/ \E s \in slots : RemoteReject(s)

\* Tool calls: every tool name and every deviceId argument, as tools/call
\* requests with an id on POST /mcp, against a registry of devices that
\* register under "devA", "all" or a generated id.
ToolInfoIds == {"devA", "all", NULL}
ToolGens == {"device-0001"}
ToolStates == {[has |-> TRUE, nodeCatalog |-> CatA]}
ToolWorkload ==
    JsonBodies(ToolRequests({"7"}, ToolNames \cup {"no_such_tool"}, ArgIds))
ToolsNext ==
    \/ RegistrySteps({"c1"}, ToolInfoIds, ToolGens, ToolStates)
    \/ \E body \in ToolWorkload : PostMcp("r1", body)
    \/ RemoteSteps({"r1"}, {Reply(NULL)})
SpecTools == Init /\ [][ToolsNext]_vars

\* The dispatcher behind its transports: every method, with and without an id,
\* on stdio, POST /mcp, POST /message and POST /func, and tool calls of one
\* tool of each shape.
CoreTools == {"list_devices", "get_flows", "deploy", "no_such_tool"}
CoreArgIds == {NULL, "devA", "all"}
CoreInfoIds == {"devA", NULL}
CoreRequests == PlainRequests \cup ToolRequests(RequestIds, CoreTools, CoreArgIds)
CoreWorkload == BadBodies \cup JsonBodies(CoreRequests)
FuncWorkload == BadBodies \cup JsonBodies(ToolRequests({NULL}, CoreTools, CoreArgIds))
Next ==
    \/ RegistrySteps({"c1"}, CoreInfoIds, ToolGens, ToolStates)
    \/ SseOpen("s1")
    \/ SseClose("s1")
    \/ \E body \in CoreWorkload : StdioLine("r1", body)
    \/ \E body \in CoreWorkload : PostMcp("r1", body)
    \/ \E x \in {"s1", "s2", NULL}, body \in CoreWorkload : PostMessage("r1", x, body)
    \/ \E body \in FuncWorkload : PostFunc("r1", body)
    \/ RemoteSteps({"r1"}, {Reply(NULL)})

Spec == Init /\ [][Next]_vars

\* Tool calls addressed to a registered device or to "all", against devices
\* whose replies may carry keys of their own (deviceId, success).
RepliesWorkload == JsonBodies(ToolRequests({"7"}, ToolNames, {"devA", "all"}))
RepliesNext ==
    \/ RegistrySteps({"c1"}, CoreInfoIds, ToolGens, ToolStates)
    \/ \E body \in RepliesWorkload : PostMcp("r1", body)
    \/ RemoteSteps({"r1"}, Replies)
SpecReplies == Init /\ [][RepliesNext]_vars
\* Broadcasts: every tool addressed to "all", and deploy, send_mcp_message and
\* get_flows addressed to one device, against devices on two connections that
\* register and disconnect while the calls are in progress.
BroadcastWorkload ==
    JsonBodies(ToolRequests({"7"}, ToolNames, {"all"})
               \cup ToolRequests({"7"}, BroadcastTools \cup {"get_flows"}, {"devA"}))
BroadcastSpecNext ==
    \/ RegistrySteps(Conns, CoreInfoIds, ToolGens, ToolStates)
    \/ \E body \in BroadcastWorkload : PostMcp("r1", body)
    \/ RemoteSteps({"r1"}, {Reply(NULL)})
SpecBroadcast == Init /\ [][BroadcastSpecNext]_vars
\* Two SSE sessions and two requests in progress at once: requests with and
\* without an id POSTed to /message on either session, one of them a tool call
\* that suspends on its device, while the streams open and close.
SessionsRequests ==
    {Request(id, m, FALSE, NULL, NULL, NULL) :
        id \in RequestIds, m \in {"ping", "notifications/initialized", "no/such_method"}}
        \cup ToolRequests({"7"}, {"get_flows"}, {"devA"})
SessionsWorkload == {Body("bad", NoRequest)} \cup JsonBodies(SessionsRequests)
SessionsNext ==
    \/ RegistrySteps({"c1"}, {"devA"}, ToolGens, ToolStates)
    \/ \E x \in Sessions : SseOpen(x)
    \/ \E x \in Sessions : SseClose(x)
    \/ \E s \in Slots, x \in Sessions \cup {NULL}, body \in SessionsWorkload :
          PostMessage(s, x, body)
    \/ RemoteSteps(Slots, {Reply(NULL)})
SpecSessions == Init /\ [][SessionsNext]_vars
\* stdio: lines that are blank, not JSON, or requests with and without an id,
\* two of them in progress at once, until stdin ends.
StdioRequests ==
    {Request(id, m, FALSE, NULL, NULL, NULL) :
        id \in RequestIds, m \in {"ping", "notifications/initialized", "no/such_method"}}
        \cup ToolRequests(RequestIds, {"get_flows"}, {"devA"})
StdioWorkload == BadBodies \cup JsonBodies(StdioRequests)
StdioNext ==
    \/ RegistrySteps({"c1"}, {"devA"}, ToolGens, ToolStates)
    \/ \E s \in Slots, body \in StdioWorkload : StdioLine(s, body)
    \/ StdinClose
    \/ RemoteSteps(Slots, {Reply(NULL)})
SpecStdio == Init /\ [][StdioNext]_vars
\* Registrations whose caller supplies "devA" or no id at all, so that every
\* id of the form device-xxxx in the registry was generated.
\* getState answers with the catalog CatA or with a state that has none.
NoCatalogState == [has |-> FALSE, nodeCatalog |-> << >>]
FetchStates == ToolStates \cup {NoCatalogState}
GeneratedNext == RegistrySteps(Conns, {"devA", "", NULL}, generateDeviceId, FetchStates)
SpecGenerated == Init /\ [][GeneratedNext]_vars
\* list_devices with every combination of filters, against devices of two
\* types that advertise different nodes, on two connections. The catalogs play
\* no part in list_devices: the devices' getState calls stay pending or fail.
ListInfos ==
    {Info("devA", "pi", <<"gpio">>), Info("devB", "pi", <<"inject">>), Info(NULL, "", << >>)}
ListFilters ==
    {Filter(type, status, node) :
        type \in {NULL, "", "pi", "browser"}, status \in {NULL, "online", "offline"},
        node \in {NULL, "gpio"}}
ListWorkload == JsonBodies(ListRequests({"7"}, ListFilters))
ListSpecNext ==
    \/ \E c \in Conns : WsConnect(c)
    \/ \E c \in Conns, info \in ListInfos, gen \in ToolGens : RegisterDeviceInfo(c, info, gen)
    \/ \E c \in Conns, gen \in ToolGens : RegisterClient(c, gen)
    \/ \E c \in Conns : GetStateReject(c)
    \/ \E c \in Conns : WsClose(c)
    \/ \E body \in ListWorkload : PostMcp("r1", body)
    \/ RemoteSteps({"r1"}, {Reply(NULL)})
SpecList == Init /\ [][ListSpecNext]_vars
\* POST /func/<tool> for every advertised tool (and one that is not), with a
\* JSON body of arguments, an empty body (which stands for {}) or a body that
\* is not JSON, against a registry of one connection.
FuncArgIds == {NULL, "devA", "all", "ghost"}
FuncRequests == ToolRequests({NULL}, ToolNames \cup {"no_such_tool"}, FuncArgIds)
FuncAllWorkload ==
    {Body("bad", NoRequest)}
        \cup JsonBodies(FuncRequests)
        \cup {Body("blank", req) : req \in ToolRequests({NULL}, ToolNames, {NULL})}
FuncNext ==
    \/ RegistrySteps({"c1"}, CoreInfoIds, ToolGens, ToolStates)
    \/ \E body \in FuncAllWorkload : PostFunc("r1", body)
    \/ RemoteSteps({"r1"}, {Reply(NULL)})
SpecFunc == Init /\ [][FuncNext]_vars
\* A call that never completes: get_flows on devA, POSTed on session s1, whose
\* remote call is never settled, while a ping, a tools/list and a get_flows on
\* devB are POSTed on the same session and devices register and disconnect on
\* two connections.
StalledRequests == ToolRequests({"7"}, {"get_flows"}, {"devA"})
OtherRequests ==
    {Request("7", m, FALSE, NULL, NULL, NULL) : m \in {"ping", "tools/list"}}
        \cup ToolRequests({"7"}, {"get_flows"}, {"devB"})
StallNext ==
    \/ RegistrySteps(Conns, {"devA", "devB"}, ToolGens, ToolStates)
    \/ SseOpen("s1")
    \/ \E body \in JsonBodies(StalledRequests) : PostMessage("r1", "s1", body)
    \/ \E body \in JsonBodies(OtherRequests) : PostMessage("r2", "s1", body)
    \/ RemoteSteps({"r2"}, {Reply(NULL)})
SpecStall == Init /\ [][StallNext]_vars
\* Two requests in progress on one SSE session, POSTed in a known order: the
\* client POSTs on r2 only while its request on r1 is being handled, and on
\* r1 only while none on r2 is, so that of two requests in progress the one
\* on r1 was POSTed first. Their remote calls settle in either order.
PostFirst(body) == reqs["r2"].st # "await" /\ PostMessage("r1", "s1", body)
PostLater(body) == reqs["r1"].st = "await" /\ PostMessage("r2", "s1", body)
FirstRequests == ToolRequests({"7"}, {"get_flows"}, {"devA"})
LaterRequests ==
    ToolRequests({"7"}, {"get_logs"}, {"devA"})
        \cup {Request("7", "ping", FALSE, NULL, NULL, NULL)}
OrderNext ==
    \/ RegistrySteps({"c1"}, {"devA"}, ToolGens, ToolStates)
    \/ SseOpen("s1")
    \/ \E body \in JsonBodies(FirstRequests) : PostFirst(body)
    \/ \E body \in JsonBodies(LaterRequests) : PostLater(body)
    \/ RemoteSteps(Slots, {Reply(NULL)})
SpecOrder == Init /\ [][OrderNext]_vars
\* list_devices and get_started, with and without a deviceId, against devices
\* on two connections whose catalogs are fetched, missing or late.
OverviewRequests ==
    ToolRequests({"7"}, {"get_started"}, {NULL, "", "devA"})
        \cup ToolRequests({"7"}, {"list_devices"}, {NULL})
OverviewNext ==
    \/ RegistrySteps(Conns, CoreInfoIds, ToolGens, FetchStates)
    \/ \E body \in JsonBodies(OverviewRequests) : PostMcp("r1", body)
    \/ RemoteSteps({"r1"}, {Reply(NULL)})
SpecOverview == Init /\ [][OverviewNext]_vars
\* ================================================================= properties
\* ------------------------------------------------------------------------ C1
\* C1: between handler steps the aggregated catalog equals a from-scratch
\* rebuild over the records in the registry and their stored nodeCatalog,
\* after any registrations (under a fresh id or one already present), catalog
\* fetches and closes.
C1_AggregateEqualsRebuild ==
    aggregatedNodeCatalog = rebuildAggregatedCatalog(devices)

\* ------------------------------------------------------------------------ C2
\* C2: every device id that owns an entry of the aggregated catalog is the id
\* of a registered device whose WebSocket connection is open.
OwnersOf(entry) == {entry.devices[j] : j \in 1..Len(entry.devices)}
C2_AggregateOwnersConnected ==
    \A i \in 1..Len(aggregatedNodeCatalog) :
        \A id \in OwnersOf(aggregatedNodeCatalog[i]) :
            /\ Has(devices, id)
            /\ wsState[Get(devices, id).conn] = "open"

\* ------------------------------------------------------------------------ C3
\* C3: a registration never displaces the record of another connection that
\* is still open: every open connection that has registered is found in the
\* registry under the id it registered with, as the owner of that record.
C3_OpenConnectionsResolvable ==
    \A c \in Conns :
        (wsState[c] = "open" /\ connDeviceId[c] # NULL)
            => /\ Has(devices, connDeviceId[c])
               /\ Get(devices, connDeviceId[c]).conn = c

\* ------------------------------------------------- tool calls and devices
\* the request of `r` reached handleToolCall (through handleRequest or /func)
IsToolCall(r) == r.bodyKind = "json" /\ r.req.method = "tools/call" /\ r.req.params
\* the call takes the requireDevice path or a broadcast: every tool but
\* list_devices and get_started without a deviceId
RequiresDevice(req) ==
    req.tool \in DeviceTools \/ (req.tool = "get_started" /\ ~Falsy(req.deviceId))
\* deploy / send_mcp_message addressed to the sentinel "all"
IsBroadcast(req) == req.tool \in BroadcastTools /\ req.deviceId = "all"
\* the deviceId argument is absent, empty or not a key of the registry
Unresolvable(req) == Falsy(req.deviceId) \/ ~Has(devices, req.deviceId)
\* the step in which the handler of request s is invoked
Starts(s) == reqs[s].st = "free" /\ reqs'[s].st # "free"
\* the advisory a completed tool call carries (NoAdv when it carries none)
AdvisoryOf(r) ==
    LET tr == r.toolResult
    IN IF Len(tr.content) = 1 /\ tr.content[1].text.json
          /\ tr.content[1].text.value.kind = "content"
       THEN tr.content[1].text.value.adv
       ELSE NoAdv

\* ------------------------------------------------------------------------ C4
\* getDevice and requireDevice yield a device only for a deviceId that is
\* exactly the key of a record in the registry, and then that record.
ExactLookup ==
    \A d \in ArgIds :
        /\ getDevice(d) # NoDevice =>
              /\ ~Falsy(d)
              /\ \E i \in 1..Len(devices) : devices[i].id = d /\ getDevice(d) = devices[i]
        /\ ~requireDevice(d).error =>
              /\ ~Falsy(d)
              /\ \E i \in 1..Len(devices) :
                    devices[i].id = d /\ requireDevice(d).device = devices[i]
\* a call of a device-requiring tool with an unresolvable deviceId issues no remote call
NoCallWithoutDevice(s) ==
    (Starts(s) /\ IsToolCall(reqs'[s]) /\ RequiresDevice(reqs'[s].req)
        /\ Unresolvable(reqs'[s].req))
        => reqs'[s].calls = << >>
\* C4 as stated: getDevice/requireDevice yield a device only for the exact key
\* of a registered record, and a call of a device-requiring tool whose deviceId
\* is absent, empty or not registered issues no remote call to any device.
C4_NoCallWithoutDevice ==
    []ExactLookup /\ [][\A s \in Slots : NoCallWithoutDevice(s)]_vars
\* C4, amended: the same, except for deploy and send_mcp_message called with
\* deviceId "all", which take the broadcast path without resolving a device.
C4_NoCallUnlessBroadcast ==
    /\ []ExactLookup
    /\ [][\A s \in Slots : ~IsBroadcast(reqs'[s].req) => NoCallWithoutDevice(s)]_vars
\* an unregistered id, exactly one device registered, the call answered
\* without a remote call
C4_Witness ==
    LET r == reqs["r1"]
    IN /\ r.st = "done" /\ IsToolCall(r) /\ r.req.tool = "get_flows"
       /\ r.req.deviceId = "ghost" /\ Len(devices) = 1 /\ r.calls = << >>

\* ---------------------------------------------------- requests and responses
\* handleRequest ran for the request of `r` and its transport has answered
Handled(r) ==
    r.st = "done" /\ r.bodyKind = "json" /\ r.transport \in {"stdio", "mcp", "message"}
\* the response, when there is one, is one object with the request's id and
\* either a result or an error
WellFormed(r) ==
    r.response.present =>
        /\ r.response.id = r.req.id
        /\ r.response.hasResult # r.response.hasError
\* the transport sent nothing that is a response
NothingSent(r) ==
    /\ r.transport = "stdio" => ~r.out.stdout
    /\ r.transport = "mcp" => r.out.status = 202 /\ r.out.body = "none"
    /\ r.transport = "message" => r.out.sse = NULL

\* ------------------------------------------------------------------------ C5
\* C5 as stated: handleRequest produces a response if and only if the request
\* carried an id, for every method (notifications/initialized included) and
\* every outcome; the response carries that id.
C5_ResponseIffId ==
    \A s \in Slots :
        Handled(reqs[s]) =>
            /\ reqs[s].response.present <=> reqs[s].req.id # NULL
            /\ WellFormed(reqs[s])
\* C5, amended: handleRequest produces a response if and only if the request
\* carried an id and its method is not notifications/initialized; the response
\* carries that id and either a result or an error.
C5_ResponseIffIdAndNotNotification ==
    \A s \in Slots :
        Handled(reqs[s]) =>
            /\ reqs[s].response.present <=>
                  (reqs[s].req.id # NULL /\ reqs[s].req.method # "notifications/initialized")
            /\ WellFormed(reqs[s])
\* an unknown method with an id, answered with an error on the SSE stream
C5_Witness ==
    LET r == reqs["r1"]
    IN /\ Handled(r) /\ r.transport = "message" /\ r.req.id = "7"
       /\ r.req.method = "no/such_method"
       /\ r.response.present /\ r.response.hasError /\ r.out.sse = "s1"

\* ------------------------------------------------------------------------ C6
\* C6: a request without an id never yields a response, whatever its method
\* and outcome: stdio writes nothing to stdout, POST /mcp answers 202 without
\* a body, POST /message writes no message event to the SSE stream.
C6_NoIdNoResponse ==
    \A s \in Slots :
        (Handled(reqs[s]) /\ reqs[s].req.id = NULL)
            => ~reqs[s].response.present /\ NothingSent(reqs[s])
\* a tools/call without an id whose handler threw, on stdio
C6_Witness ==
    LET r == reqs["r1"]
    IN /\ Handled(r) /\ r.transport = "stdio" /\ r.req.id = NULL
       /\ r.req.method = "tools/call" /\ ~r.req.params
       /\ ~r.response.present /\ ~r.out.stdout

\* ------------------------------------------------------------------------ C7
\* C7: a notifications/initialized request never produces a response, even
\* when it carries an id.
C7_InitializedNeverAnswered ==
    \A s \in Slots :
        (Handled(reqs[s]) /\ reqs[s].req.method = "notifications/initialized")
            => ~reqs[s].response.present /\ NothingSent(reqs[s])
\* notifications/initialized with an id on POST /mcp: 202, no body
C7_Witness ==
    LET r == reqs["r1"]
    IN /\ Handled(r) /\ r.transport = "mcp" /\ r.req.id = "7"
       /\ r.req.method = "notifications/initialized"
       /\ ~r.response.present /\ r.out.status = 202

\* ----------------------------------------------------- advisory answers
\* request `r`, with an id, was answered at once with a JSON-RPC result whose
\* tool result is not an error and carries the advisory `adv`, without a
\* remote call
AnsweredWith(r, adv) ==
    /\ r.st = "done" /\ r.calls = << >>
    /\ r.response.present /\ r.response.hasResult /\ ~r.response.hasError
    /\ r.response.result = ToolCallResult(r.toolResult)
    /\ ~r.toolResult.isError
    /\ adv # NoAdv /\ AdvisoryOf(r) = adv
\* some advisory of requireDevice
Advised(r) == \E adv \in {AdvisoryOf(r)} : AnsweredWith(r, adv)

\* ------------------------------------------------------------------------ C8
\* a call of a device-requiring tool with an unresolvable deviceId is answered
\* with a result carrying an advisory, and leaves registry and aggregate alone
AdvisoryNotError(s) ==
    (Starts(s) /\ IsToolCall(reqs'[s]) /\ reqs'[s].req.id # NULL
        /\ RequiresDevice(reqs'[s].req) /\ Unresolvable(reqs'[s].req))
        => /\ Advised(reqs'[s])
           /\ devices' = devices
           /\ aggregatedNodeCatalog' = aggregatedNodeCatalog
\* C8 as stated: a tools/call for a device-requiring tool whose deviceId is
\* absent or not in the registry is answered with a JSON-RPC result carrying
\* an advisory text, never with an error object or an exception, and the
\* registry and the aggregate are unchanged by the call.
C8_AdvisoryNotError == [][\A s \in Slots : AdvisoryNotError(s)]_vars
\* C8, amended: the same, except for deploy and send_mcp_message called with
\* deviceId "all", which are answered with the broadcast's result.
C8_AdvisoryUnlessBroadcast ==
    [][\A s \in Slots : ~IsBroadcast(reqs'[s].req) => AdvisoryNotError(s)]_vars
\* no deviceId, one device registered: the advisory lists the devices
C8_Witness ==
    LET r == reqs["r1"]
    IN /\ IsToolCall(r) /\ r.req.tool = "get_device_details" /\ r.req.deviceId = NULL
       /\ Len(devices) = 1
       /\ AnsweredWith(r, ChooseAdvisory(DeviceList(devices)))

\* ------------------------------------------------------------------------ C9
\* C9: a tools/call for a device-scoped tool issued while the registry is
\* empty completes without a remote call and returns the advisory that tells
\* how to connect a device, whatever the deviceId argument (absent, some id,
\* "all").
C9_EmptyRegistryConnectAdvisory ==
    [][\A s \in Slots :
          (Starts(s) /\ IsToolCall(reqs'[s]) /\ reqs'[s].req.id # NULL
              /\ RequiresDevice(reqs'[s].req) /\ Len(devices) = 0)
              => AnsweredWith(reqs'[s], ConnectAdvisory)]_vars

\* ----------------------------------------------------------------------- C10
\* a call with a non-empty deviceId that is no key of the registry returns the
\* "not found" advisory naming that id and referring to list_devices
NotFoundAnswer(s) ==
    (Starts(s) /\ IsToolCall(reqs'[s]) /\ reqs'[s].req.id # NULL
        /\ RequiresDevice(reqs'[s].req)
        /\ ~Falsy(reqs'[s].req.deviceId) /\ ~Has(devices, reqs'[s].req.deviceId))
        => /\ Advised(reqs'[s])
           /\ AdvisoryOf(reqs'[s]).adv = "not_found"
           /\ AdvisoryOf(reqs'[s]).deviceId = reqs'[s].req.deviceId
           /\ AdvisoryOf(reqs'[s]).refers = "list_devices"
\* C10 as stated: for every device-scoped tool, a call whose deviceId is
\* non-empty and not the id of a registered device returns the "not found"
\* advisory naming that id and referring to list_devices, without a remote call.
C10_UnknownIdNotFound == [][\A s \in Slots : NotFoundAnswer(s)]_vars
\* C10, amended: the same, except for deploy and send_mcp_message called with
\* deviceId "all", which broadcast to the registered devices.
C10_UnknownIdNotFoundUnlessBroadcast ==
    [][\A s \in Slots : ~IsBroadcast(reqs'[s].req) => NotFoundAnswer(s)]_vars
\* use_custom_tool for an unregistered id while a device is registered
C10_Witness ==
    LET r == reqs["r1"]
    IN /\ IsToolCall(r) /\ r.req.tool = "use_custom_tool" /\ r.req.deviceId = "ghost"
       /\ Len(devices) = 1
       /\ AnsweredWith(r, NotFoundAdvisory("ghost"))

\* ----------------------------------------------------------------------- C11
\* C11: when at least one device is registered and a device-requiring tool is
\* called without a deviceId, the advisory lists exactly the devices in the
\* registry at the moment of the call: one entry per record, in the registry's
\* order, none missing, none extra.
C11_AdvisoryListsRegistry ==
    [][\A s \in Slots :
          (Starts(s) /\ IsToolCall(reqs'[s]) /\ reqs'[s].req.id # NULL
              /\ RequiresDevice(reqs'[s].req) /\ Falsy(reqs'[s].req.deviceId)
              /\ Len(devices) >= 1)
              => LET adv == AdvisoryOf(reqs'[s])
                 IN /\ AnsweredWith(reqs'[s], adv)
                    /\ adv.adv = "choose"
                    /\ Len(adv.deviceList) = Len(devices)
                    /\ \A i \in 1..Len(devices) :
                          adv.deviceList[i] = [id |-> devices[i].id, type |-> devices[i].type]]_vars
\* two devices registered, a call without deviceId, both listed
C11_Witness ==
    LET r == reqs["r1"]
    IN /\ r.st = "done" /\ IsToolCall(r) /\ r.req.tool = "inject_node" /\ r.req.deviceId = NULL
       /\ Len(devices) = 2
       /\ AdvisoryOf(r).adv = "choose" /\ Len(AdvisoryOf(r).deviceList) = 2

\* ---------------------------------------------------- remote-call failures
\* a remote call of `r` other than `except` was rejected
RejectedCall(r, except) ==
    \E k \in 1..Len(r.calls) : r.calls[k].outcome = "rejected" /\ r.calls[k].rpc # except
\* `r` was answered with a JSON-RPC result holding a tool result whose error
\* flag is set and whose text is `Error: ` followed by the rejection's message
ErrorEnvelope(r) ==
    /\ r.response.present /\ r.response.hasResult /\ ~r.response.hasError
    /\ r.response.result.kind = "tool" /\ r.response.result.tool = r.toolResult
    /\ r.toolResult.isError
    /\ Len(r.toolResult.content) = 1
    /\ ~r.toolResult.content[1].text.json
    /\ r.toolResult.content[1].text.message = RemoteError
\* a completed call of a device-requiring tool to one device
SingleDeviceCall(r) ==
    r.st = "done" /\ IsToolCall(r) /\ RequiresDevice(r.req) /\ ~IsBroadcast(r.req)

ValueOf(r) ==
    IF Len(r.toolResult.content) = 1 /\ r.toolResult.content[1].text.json
    THEN r.toolResult.content[1].text.value
    ELSE NoRet
\* C13: every successful result of a device-scoped tool call carries a
\* deviceId field equal to the id of the device that served the call, whatever
\* the device's reply contains (a deviceId field of its own included), for
\* every device-scoped tool.
C13_ResultTaggedWithServingDevice ==
    \A s \in Slots :
        (SingleDeviceCall(reqs[s]) /\ Len(reqs[s].calls) >= 1 /\ ~reqs[s].toolResult.isError)
            => ValueOf(reqs[s]).deviceId = reqs[s].dev

\* ----------------------------------------------------------------------- C14
\* a call of a device-requiring tool addressed to one registered device
ResolvedCall(r) ==
    /\ r.st \in {"await", "done"} /\ IsToolCall(r)
    /\ RequiresDevice(r.req) /\ ~IsBroadcast(r.req)
\* every remote call of `r` went to the device it named, all on one
\* connection, and none was issued after a rejection
SameDeviceNoRetry(r) ==
    \A k \in 1..Len(r.calls) :
        /\ r.calls[k].dev = r.req.deviceId
        /\ r.calls[k].conn = r.calls[1].conn
        /\ k < Len(r.calls) => r.calls[k].outcome = "resolved"
\* the handler of s starts for a registered device: its first remote call is
\* the tool's method on the connection of that device's record
FirstCallOnDevice(s) ==
    (Starts(s) /\ ResolvedCall(reqs'[s]) /\ ~Unresolvable(reqs'[s].req))
        => /\ reqs'[s].st = "await"
           /\ Len(reqs'[s].calls) = 1
           /\ reqs'[s].calls[1].conn = Get(devices, reqs'[s].req.deviceId).conn
           /\ reqs'[s].calls[1].rpc = RpcOf(reqs'[s].req.tool)
\* C14 as stated: a tool call resolved to one device issues exactly one remote
\* call, on that device's connection and no other, and never issues it again
\* after a failure; for every device-scoped tool.
C14_ExactlyOneCall ==
    /\ [](\A s \in Slots :
            ResolvedCall(reqs[s]) => SameDeviceNoRetry(reqs[s]) /\ Len(reqs[s].calls) <= 1)
    /\ [][\A s \in Slots : FirstCallOnDevice(s)]_vars
\* C14, amended: the same, except that use_custom_tool without a tool name
\* issues no remote call, and get_device_details issues a second one
\* (getCustomTools) on the same connection once its getState has resolved.
C14_OneCallPerToolStep ==
    /\ [](\A s \in Slots :
            ResolvedCall(reqs[s]) =>
                /\ SameDeviceNoRetry(reqs[s])
                /\ Len(reqs[s].calls) <=
                      (IF reqs[s].req.tool = "get_device_details" THEN 2 ELSE 1)
                /\ Len(reqs[s].calls) = 2 => reqs[s].calls[2].rpc = "getCustomTools")
    /\ [][\A s \in Slots :
            IF reqs'[s].req.tool = "use_custom_tool" /\ Falsy(reqs'[s].req.argName)
            THEN (Starts(s) /\ ResolvedCall(reqs'[s])) => reqs'[s].calls = << >>
            ELSE FirstCallOnDevice(s)]_vars
\* create_flow on a registered device: one call, rejected, not issued again
C14_Witness ==
    LET r == reqs["r1"]
    IN /\ r.st = "done" /\ ResolvedCall(r) /\ r.req.tool = "create_flow"
       /\ Len(r.calls) = 1 /\ r.calls[1].outcome = "rejected" /\ r.calls[1].conn = "c1"

\* ------------------------------------------------------------- broadcasts
\* a completed deploy / send_mcp_message addressed to "all"
BroadcastDone(r) == r.st = "done" /\ IsToolCall(r) /\ IsBroadcast(r.req)

\* ----------------------------------------------------------------------- C15
\* C15: a broadcast over n registered devices, with no registry change during
\* it, returns exactly n entries, one per device: success = true with the
\* device's result where the call resolved, success = false with the
\* underlying error message where it rejected; a rejection on one device
\* neither removes nor alters another's entry nor makes the whole result an
\* error.
C15_OneEntryPerDevice ==
    \A s \in Slots :
        (BroadcastDone(reqs[s]) /\ ~reqs[s].dirty)
            => LET r == reqs[s]
                   results == ValueOf(r).results
               IN /\ ~r.toolResult.isError
                  /\ ValueOf(r).kind = "broadcast"
                  /\ Len(r.snap) = Len(devices)
                  /\ Len(results) = Len(devices)
                  /\ ValueOf(r).count = Len(devices)
                  /\ \A i \in 1..Len(results) :
                        /\ results[i].deviceId = devices[i].id
                        /\ r.calls[i].outcome = "resolved" =>
                              results[i].success /\ results[i].reply.data = "payload"
                        /\ r.calls[i].outcome = "rejected" =>
                              ~results[i].success /\ results[i].error = RemoteError

\* ----------------------------------------------------------------------- C16
\* the ids of the devices `r` has called, in the order of the calls
CalledBy(r) == [k \in 1..Len(r.calls) |-> r.calls[k].dev]
\* C16: the devices a broadcast calls and reports on are exactly those
\* registered when it starts: a device that registers during the broadcast is
\* not called, a device that disconnects during it still has its entry.
C16_BroadcastUsesSnapshot ==
    \A s \in Slots :
        BroadcastDone(reqs[s])
            => /\ CalledBy(reqs[s]) = reqs[s].snap
               /\ Len(ValueOf(reqs[s]).results) = Len(reqs[s].snap)
               /\ \A i \in 1..Len(reqs[s].snap) :
                     ValueOf(reqs[s]).results[i].deviceId = reqs[s].snap[i]

\* ----------------------------------------------------------------------- C17
\* C17: in a broadcast the remote call to every targeted device is issued
\* before the outcome of any of them is awaited: whenever the broadcast is
\* suspended on a call, every device it targets has been called.
C17_AllCallsIssuedBeforeAwait ==
    \A s \in Slots :
        (reqs[s].st = "await" /\ reqs[s].phase = "broadcast")
            => \A i \in 1..Len(reqs[s].snap) :
                  \E k \in 1..Len(reqs[s].calls) : reqs[s].calls[k].dev = reqs[s].snap[i]

\* ----------------------------------------------------------------------- C18
\* the handler of s starts as a broadcast: with no device it returns the empty
\* broadcast result, otherwise it calls the tool's method on the first device
StartsAsBroadcast(s) ==
    IF Len(devices) = 0
    THEN /\ reqs'[s].st = "done" /\ ~reqs'[s].toolResult.isError
         /\ ValueOf(reqs'[s]).kind = "broadcast" /\ ValueOf(reqs'[s]).results = << >>
    ELSE /\ reqs'[s].st = "await" /\ reqs'[s].phase = "broadcast"
         /\ CalledBy(reqs'[s]) = <<devices[1].id>>
         /\ reqs'[s].calls[1].conn = devices[1].conn
         /\ reqs'[s].calls[1].rpc = RpcOf(reqs'[s].req.tool)
\* a completed call has called every registered device, in the registry's
\* order, and returned the broadcast result
CalledEveryDevice(r) ==
    /\ CalledBy(r) = [i \in 1..Len(devices) |-> devices[i].id]
    /\ ValueOf(r).kind = "broadcast" /\ ValueOf(r).count = Len(devices)
\* a call addressed to "all" by a tool among `tools`
ToAll(r, tools) ==
    IsToolCall(r) /\ RequiresDevice(r.req) /\ r.req.deviceId = "all" /\ r.req.tool \in tools
\* completed calls addressed to "all" by the tools in `tools` ran as broadcasts
BroadcastsDone(tools) ==
    \A s \in Slots :
        (reqs[s].st = "done" /\ ToAll(reqs[s], tools) /\ ~reqs[s].dirty)
            => CalledEveryDevice(reqs[s])
\* calls addressed to "all" by the tools in `tools` start as broadcasts
BroadcastsStart(tools) ==
    \A s \in Slots : (Starts(s) /\ ToAll(reqs'[s], tools)) => StartsAsBroadcast(s)
\* C18 as stated: a tool invocation whose deviceId is "all" is executed as a
\* broadcast to all currently registered devices, for every device-scoped tool.
C18_AllIsBroadcastEveryTool ==
    /\ []BroadcastsDone(DeviceTools \cup {"get_started"})
    /\ [][BroadcastsStart(DeviceTools \cup {"get_started"})]_vars
\* C18, amended: a deploy or send_mcp_message invocation whose deviceId is
\* "all" is executed as a broadcast to all currently registered devices; for
\* every other device-scoped tool "all" is looked up as a device id like any
\* other, and with no device registered under it the call is answered with
\* the "not found" advisory and issues no remote call.
C18_AllIsBroadcastForTwoTools ==
    /\ []BroadcastsDone(BroadcastTools)
    /\ [][/\ BroadcastsStart(BroadcastTools)
          /\ \A s \in Slots :
                (Starts(s)
                    /\ ToAll(reqs'[s], (DeviceTools \cup {"get_started"}) \ BroadcastTools)
                    /\ reqs'[s].req.id # NULL /\ ~Has(devices, "all"))
                    => AnsweredWith(reqs'[s], NotFoundAdvisory("all"))]_vars
\* send_mcp_message to "all" with two devices on two connections, both called
C18_Witness ==
    LET r == reqs["r1"]
    IN /\ BroadcastDone(r) /\ r.req.tool = "send_mcp_message" /\ ~r.dirty
       /\ Len(devices) = 2 /\ Len(r.calls) = 2
       /\ r.calls[1].conn # r.calls[2].conn
       /\ CalledEveryDevice(r)

\* ----------------------------------------------------------------------- C19
\* the table holds exactly the sessions whose stream is open
TableIsOpenStreams == sseConnections = {x \in Sessions : sseState[x] = "open"}
\* the table changes only as a stream opens (its id is inserted) or closes
\* (its id is removed)
TableChangesWithStream ==
    sseConnections' # sseConnections =>
        \E x \in Sessions :
            \/ /\ sseState[x] = "idle" /\ sseState'[x] = "open"
               /\ sseConnections' = sseConnections \cup {x}
            \/ /\ sseState[x] = "open" /\ sseState'[x] = "closed"
               /\ sseConnections' = sseConnections \ {x}
\* a POST /message naming a closed stream's id is answered 400
ClosedSessionRefused(s) ==
    (Starts(s) /\ reqs'[s].transport = "message" /\ reqs'[s].session \in Sessions
        /\ sseState[reqs'[s].session] = "closed")
        => reqs'[s].st = "done" /\ reqs'[s].out.status = 400
\* C19: a session id is in the session table exactly while its SSE connection
\* is open: inserted when the stream opens, removed when it closes, never
\* inserted or removed by another event; after the close every POST /message
\* with that id is answered 400.
C19_SessionWhileStreamOpen ==
    /\ []TableIsOpenStreams
    /\ [][TableChangesWithStream /\ \A s \in Slots : ClosedSessionRefused(s)]_vars
\* a POST /message for a session whose stream has closed, answered 400
C19_Witness ==
    LET r == reqs["r1"]
    IN /\ r.st = "done" /\ r.transport = "message" /\ r.session = "s1"
       /\ sseState["s1"] = "closed" /\ "s1" \notin sseConnections
       /\ r.out.status = 400

\* ----------------------------------------------------------------------- C20
\* C20: a POST /message whose sessionId is missing, unknown or that of a
\* closed session is answered 400 and its body is never dispatched to
\* handleRequest: no response, no remote call, no SSE event on any session.
C20_BadSessionNotDispatched ==
    [][\A s \in Slots :
          (Starts(s) /\ reqs'[s].transport = "message"
              /\ reqs'[s].session \notin sseConnections)
              => /\ reqs'[s].st = "done"
                 /\ reqs'[s].out.status = 400
                 /\ reqs'[s].out.sse = NULL
                 /\ reqs'[s].bodyKind = NULL /\ reqs'[s].req = NoRequest
                 /\ ~reqs'[s].response.present
                 /\ reqs'[s].calls = << >>]_vars
\* a POST /message without a sessionId while a stream is open: 400, nothing
\* written to the stream
C20_Witness ==
    LET r == reqs["r1"]
    IN /\ r.st = "done" /\ r.transport = "message" /\ r.session = NULL
       /\ sseConnections = {"s1"}
       /\ r.out.status = 400 /\ r.out.sse = NULL /\ r.calls = << >>

\* ----------------------------------------------------------------------- C21
\* the request of `r` arrived by POST /message on a session in the table, was
\* parsed and dispatched, and the POST has been answered
OnSession(r) == Handled(r) /\ r.transport = "message"
\* the POST is acknowledged with 202 and an empty body
Acknowledged(r) == r.out.status = 202 /\ r.out.body = "none"
\* the only stream a request writes to is that of the session it was POSTed on
OwnStreamOnly ==
    \A s \in Slots :
        /\ reqs[s].out.sse \in {NULL, reqs[s].session}
        /\ reqs[s].transport # "message" => reqs[s].out.sse = NULL
\* C21 as stated: for a valid JSON-RPC request with an id POSTed to /message
\* on an open session, the response is written as a message event on the SSE
\* stream of exactly that session, never on another session's stream, and the
\* POST itself is answered 202 without the response in its body.
C21_ResponseOnOwnStream ==
    /\ OwnStreamOnly
    /\ \A s \in Slots :
          (OnSession(reqs[s]) /\ reqs[s].req.id # NULL)
              => /\ reqs[s].response.present
                 /\ reqs[s].out.sse = reqs[s].session
                 /\ Acknowledged(reqs[s])
\* C21, amended: the same for every request with an id whose method is not
\* notifications/initialized; that method is answered with the 202 alone and
\* no event is written to any stream.
C21_ResponseOnOwnStreamUnlessInitialized ==
    /\ OwnStreamOnly
    /\ \A s \in Slots :
          OnSession(reqs[s]) =>
              /\ Acknowledged(reqs[s])
              /\ (reqs[s].req.id # NULL /\ reqs[s].req.method # "notifications/initialized")
                    => reqs[s].response.present /\ reqs[s].out.sse = reqs[s].session
              /\ reqs[s].req.method = "notifications/initialized"
                    => reqs[s].out.sse = NULL
\* both streams open, a tool call on s1 answered on s1 while a request POSTed
\* on s2 is still waiting for its device
C21_Witness ==
    /\ sseConnections = {"s1", "s2"}
    /\ OnSession(reqs["r1"]) /\ reqs["r1"].session = "s1"
    /\ reqs["r1"].req.tool = "get_flows" /\ reqs["r1"].response.hasResult
    /\ reqs["r1"].out.sse = "s1" /\ Acknowledged(reqs["r1"])
    /\ reqs["r2"].st = "await" /\ reqs["r2"].session = "s2"

\* ----------------------------------------------------------------------- C22
\* the request of `r` arrived by POST /mcp and the POST has been answered
OnMcp(r) == r.st = "done" /\ r.transport = "mcp"
\* 200 with the JSON-RPC response as the body
AnsweredInBody(r) ==
    /\ r.out.status = 200 /\ r.out.body = "response"
    /\ r.response.present /\ WellFormed(r)
\* 202 with no body
AcceptedOnly(r) == r.out.status = 202 /\ r.out.body = "none" /\ ~r.response.present
\* a body that JSON.parse rejects is answered 400, is not dispatched, and the
\* step changes neither the registry, the aggregate nor the session table
UnparseableRefused ==
    \A s \in Slots :
        (Starts(s) /\ reqs'[s].transport = "mcp" /\ reqs'[s].bodyKind # "json")
            => /\ reqs'[s].st = "done" /\ reqs'[s].out.status = 400
               /\ ~reqs'[s].response.present /\ reqs'[s].calls = << >>
               /\ UNCHANGED <<registryVars, sseState, sseConnections>>
\* C22 as stated: on POST /mcp a parseable request with an id is answered 200
\* with the JSON-RPC response as the body, a parseable request without an id
\* is answered 202 with no body, and an unparseable body is answered 400 and
\* changes no state.
C22_DirectPostStatus ==
    /\ [](\A s \in Slots :
            (OnMcp(reqs[s]) /\ reqs[s].bodyKind = "json")
                => IF reqs[s].req.id # NULL THEN AnsweredInBody(reqs[s])
                   ELSE AcceptedOnly(reqs[s]))
    /\ [][UnparseableRefused]_vars
\* C22, amended: the same, except that a notifications/initialized request is
\* answered 202 with no body even when it carries an id.
C22_DirectPostStatusUnlessInitialized ==
    /\ [](\A s \in Slots :
            (OnMcp(reqs[s]) /\ reqs[s].bodyKind = "json")
                => IF reqs[s].req.id # NULL
                      /\ reqs[s].req.method # "notifications/initialized"
                   THEN AnsweredInBody(reqs[s])
                   ELSE AcceptedOnly(reqs[s]))
    /\ [][UnparseableRefused]_vars
\* a tool call with an id, served by its device, answered 200 with the
\* response as the body
C22_Witness ==
    LET r == reqs["r1"]
    IN /\ OnMcp(r) /\ r.req.id = "7" /\ r.req.tool = "get_flows"
       /\ Len(r.calls) = 1 /\ r.calls[1].outcome = "resolved"
       /\ AnsweredInBody(r) /\ r.response.hasResult

\* ----------------------------------------------------------------------- C23
\* the request of `r` arrived as a line of JSON on stdin and was handled
OnStdio(r) == Handled(r) /\ r.transport = "stdio"
\* a line that is not JSON is skipped: nothing is written to stdout, nothing is
\* dispatched, the process keeps running and the requests in progress are
\* left as they are
BadLineSkipped ==
    \A s \in Slots :
        (Starts(s) /\ reqs'[s].transport = "stdio" /\ reqs'[s].bodyKind = "bad")
            => /\ reqs'[s].st = "done" /\ ~reqs'[s].out.stdout
               /\ ~reqs'[s].response.present /\ reqs'[s].calls = << >>
               /\ stdio'.running /\ stdio'.skipped
               /\ \A t \in Slots \ {s} : reqs[t].st = "await" => reqs'[t] = reqs[t]
               /\ UNCHANGED <<registryVars, sseState, sseConnections>>
\* only the end of stdin ends the process
OnlyCloseEnds == (stdio.running /\ ~stdio'.running) => (reqs' = reqs /\ devices' = devices)
\* C23 as stated: on stdio a line that is not valid JSON is skipped without
\* writing anything to stdout and without ending the process; every
\* well-formed request line with an id that arrives before or after it still
\* gets its response written to stdout.
C23_BadLineSkipped ==
    /\ [](\A s \in Slots :
            (OnStdio(reqs[s]) /\ reqs[s].req.id # NULL)
                => reqs[s].response.present /\ reqs[s].out.stdout)
    /\ [][BadLineSkipped /\ OnlyCloseEnds]_vars
\* C23, amended: the same for every well-formed request line with an id whose
\* method is not notifications/initialized; for that method nothing is written
\* to stdout, whether or not a malformed line came before.
C23_BadLineSkippedResponsesWritten ==
    /\ [](\A s \in Slots :
            OnStdio(reqs[s])
                => (reqs[s].out.stdout <=>
                       (reqs[s].req.id # NULL
                           /\ reqs[s].req.method # "notifications/initialized"))
                   /\ (reqs[s].out.stdout => reqs[s].response.present))
    /\ [][BadLineSkipped /\ OnlyCloseEnds]_vars
\* after a malformed line was skipped the process is running, and a tool call
\* with an id, served by its device, has its response written to stdout while
\* another request line is still waiting for its device
C23_Witness ==
    /\ stdio.skipped /\ stdio.running
    /\ OnStdio(reqs["r1"]) /\ reqs["r1"].req.id = "7" /\ reqs["r1"].req.tool = "get_flows"
    /\ Len(reqs["r1"].calls) = 1 /\ reqs["r1"].calls[1].outcome = "resolved"
    /\ reqs["r1"].out.stdout /\ reqs["r1"].response.hasResult
    /\ reqs["r2"].st = "await"

\* ----------------------------------------------------------------------- C24
\* the methods handleRequest has a case for
KnownMethods == {"initialize", "notifications/initialized", "tools/list", "tools/call", "ping"}
\* C24: an unknown method in a request that carries an id yields a JSON-RPC
\* error object: an error member whose message names the method, the same id,
\* and no result member.
C24_UnknownMethodError ==
    \A s \in Slots :
        (Handled(reqs[s]) /\ reqs[s].req.id # NULL /\ reqs[s].req.method \notin KnownMethods)
            => /\ reqs[s].response.present
               /\ reqs[s].response.hasError /\ ~reqs[s].response.hasResult
               /\ reqs[s].response.id = reqs[s].req.id
               /\ reqs[s].response.message = Msg("Unknown method", reqs[s].req.method)
               /\ reqs[s].response.result = NoResult
\* an unknown method with an id on POST /mcp, answered 200 with the error object
C24_Witness ==
    LET r == reqs["r1"]
    IN /\ Handled(r) /\ r.transport = "mcp" /\ r.req.id = "7"
       /\ r.req.method = "no/such_method"
       /\ r.response.hasError /\ r.response.message.arg = "no/such_method"
       /\ r.out.status = 200

\* ----------------------------------------------------------------------- C25
\* C25: after a connection has closed the registry contains no record that
\* was created through it, however many registerDevice / registerClient calls
\* the connection made before it closed.
C25_NoRecordOfClosedConnection ==
    \A i \in 1..Len(devices) : wsState[devices[i].conn] # "closed"

\* ----------------------------------------------------------------------- C26
\* the step is a registration that supplies no id and is given the id `gen`
\* (the first registration of its connection when connDeviceId[c] is unset)
RegistersGenerated(c, gen) ==
    \/ RegisterClient(c, gen)
    \/ RegisterDevice(c, NULL, gen)
    \/ RegisterDevice(c, "", gen)
\* C26: every id generated for a registration that supplies no id
\* (registerDevice without an id, every registerClient) differs from the id of
\* every record in the registry at that moment, so each such registration adds
\* a record and n of them on n open connections leave n records with
\* pairwise-distinct ids.
C26_GeneratedIdIsFresh ==
    [][\A c \in Conns, gen \in generateDeviceId :
          (connDeviceId[c] = NULL /\ RegistersGenerated(c, gen))
              => ~Has(devices, gen) /\ Len(devices') = Len(devices) + 1]_vars

\* ----------------------------------------------------------------------- C27
\* the id a registerDevice call is to register under
ExpectedId(infoId, gen) == IF Falsy(infoId) THEN gen ELSE infoId
\* the step inserted (or replaced) the record under `deviceId` for connection c
Inserted(c, deviceId) ==
    /\ Has(devices', deviceId)
    /\ Get(devices', deviceId) = NewDevice(deviceId, c, Get(devices', deviceId).type)
    /\ Keys(devices') = Keys(devices) \cup {deviceId}
\* a registerDevice handler of connection c, which inserted fetches[c][i],
\* resumes from getState and returns
Returns(c, i) ==
    /\ i \in 1..Len(fetches[c])
    /\ fetches'[c] = Remove(fetches[c], i)
\* C27: registerDevice registers the device under the caller-supplied id
\* whenever one is supplied and non-empty and under a generated id otherwise;
\* registerClient always registers under a generated id; in both cases the id
\* returned to the device equals the key of the record inserted.
C27_RegisteredUnderReturnedId ==
    [][\A c \in Conns :
          /\ \A infoId \in InfoIds, gen \in generateDeviceId :
                RegisterDevice(c, infoId, gen) => Inserted(c, ExpectedId(infoId, gen))
          /\ \A gen \in generateDeviceId :
                RegisterClient(c, gen)
                    => Inserted(c, gen) /\ RegistrationReturn(c)'.deviceId = gen
          /\ \A i \in 1..MaxRegs :
                Returns(c, i) => RegistrationReturn(c)'.deviceId = fetches[c][i]]_vars

\* ----------------------------------------------------------------------- C28
\* a registerDevice handler of connection c resumes from a getState that
\* rejected or resolved without a nodeCatalog
FailedFetch(c) == GetStateReject(c) \/ GetStateResolve(c, NoCatalogState)
\* the record under deviceId is the one connection c registered
Owns(c, deviceId) == Has(devices, deviceId) /\ Get(devices, deviceId).conn = c
\* the step changes neither registry nor aggregate, the handler reports
\* success, and the record under deviceId is online and resolved by requireDevice
KeepsDevice(c, deviceId) ==
    /\ devices' = devices
    /\ aggregatedNodeCatalog' = aggregatedNodeCatalog
    /\ RegistrationReturn(c)'.success
    \* the registry after the step is the registry before it
    /\ Get(devices, deviceId).status = "online"
    /\ ~requireDevice(deviceId).error
    /\ requireDevice(deviceId).device = Get(devices, deviceId)
\* registerDevice stores the record online with an empty catalog and leaves
\* the aggregate as it is
RegisteredEmpty(c) ==
    \A infoId \in InfoIds, gen \in generateDeviceId :
        RegisterDevice(c, infoId, gen)
            => /\ Get(devices', ExpectedId(infoId, gen)) =
                     NewDevice(ExpectedId(infoId, gen), c, "unknown")
               /\ NewDevice(ExpectedId(infoId, gen), c, "unknown").nodeCatalog = << >>
               /\ aggregatedNodeCatalog' = aggregatedNodeCatalog
\* C28 as stated: when the post-registration catalog fetch rejects or returns
\* no catalog, the device stays in the registry with status online and an
\* empty catalog, the registration call still reports success, the aggregate
\* gains no entry for that device, and the device is resolvable by tool calls.
C28_FailedFetchLeavesEmptyDevice ==
    [][\A c \in Conns :
          /\ RegisteredEmpty(c)
          /\ \A i \in 1..MaxRegs :
                (FailedFetch(c) /\ Returns(c, i) /\ Owns(c, fetches[c][i]))
                    => /\ KeepsDevice(c, fetches[c][i])
                       /\ Get(devices', fetches[c][i]).nodeCatalog = << >>]_vars
\* C28, amended: a catalog fetch that rejects or returns no catalog changes
\* neither the registry nor the aggregate: the device stays registered and
\* online with the catalog it had (empty as registered, unless another fetch
\* started for the same id has stored one meanwhile), the registration call
\* reports success, and the device is resolvable by tool calls.
C28_FailedFetchChangesNothing ==
    [][\A c \in Conns :
          /\ RegisteredEmpty(c)
          /\ \A i \in 1..MaxRegs :
                (FailedFetch(c) /\ Returns(c, i) /\ Owns(c, fetches[c][i]))
                    => /\ KeepsDevice(c, fetches[c][i])
                       /\ Get(devices', fetches[c][i]).nodeCatalog =
                             Get(devices, fetches[c][i]).nodeCatalog]_vars
\* one registration whose only catalog fetch failed: the device is registered,
\* online, has an empty catalog, owns no aggregate entry and is resolvable
C28_Witness ==
    /\ regCount = 1 /\ wsState["c1"] = "open" /\ fetches["c1"] = << >>
    /\ devices = <<NewDevice("devA", "c1", "unknown")>>
    /\ aggregatedNodeCatalog = << >>
    /\ ~requireDevice("devA").error

\* ----------------------------------------------------------------------- C29
\* a list_devices call has returned, and the registry did not change while its
\* loop was suspended
ListDone(r) ==
    /\ r.st = "done" /\ IsToolCall(r) /\ r.req.tool = "list_devices" /\ ~r.dirty
\* the devices of `devs`, in order, that satisfy every filter `supplied` says
\* is supplied: type equal, status equal, node among the advertised nodes
Satisfying(devs, filter, supplied(_)) ==
    SelectSeq(devs, LAMBDA d :
        /\ supplied(filter.type) => d.type = filter.type
        /\ supplied(filter.status) => d.status = filter.status
        /\ supplied(filter.node) => \E i \in 1..Len(d.nodes) : d.nodes[i] = filter.node)
\* the call returned, without an error, exactly the devices `expected`
Listed(r, expected) ==
    LET tr == r.toolResult
        ret == tr.content[1].text.value
    IN /\ ~tr.isError /\ Len(tr.content) = 1 /\ tr.content[1].text.json
       /\ ret.kind = "list" /\ ret.count = Len(expected) /\ Len(ret.list) = Len(expected)
       /\ \A i \in 1..Len(expected) :
             /\ ret.list[i].id = expected[i].id
             /\ ret.list[i].type = expected[i].type
             /\ ret.list[i].status = expected[i].status
\* a filter is supplied when the argument is present
Present(x) == x # NULL
\* a filter is supplied when the argument is present and not the empty string
NonEmpty(x) == ~Falsy(x)
\* C29 as stated: list_devices returns exactly the registered devices that
\* satisfy all supplied filters at once (type equal, status equal, node name a
\* member of the device's advertised node list); a device failing any one
\* supplied filter is excluded, and an absent filter excludes nothing.
C29_ListIsConjunctiveFilter ==
    \A s \in Slots :
        ListDone(reqs[s])
            => Listed(reqs[s], Satisfying(devices, reqs[s].req.filter, Present))
\* C29, amended: the same, where a filter given as the empty string counts as
\* absent and excludes nothing.
C29_ListIsConjunctiveNonEmptyFilter ==
    \A s \in Slots :
        ListDone(reqs[s])
            => Listed(reqs[s], Satisfying(devices, reqs[s].req.filter, NonEmpty))
\* two devices of type "pi" registered, one advertising gpio: the call with
\* type "pi" and node "gpio" returns that one alone
C29_Witness ==
    LET r == reqs["r1"]
    IN /\ ListDone(r) /\ r.req.filter = Filter("pi", NULL, "gpio")
       /\ Len(devices) = 2 /\ devices[1].id = "devB" /\ devices[2].id = "devA"
       /\ devices[1].type = "pi" /\ devices[2].type = "pi"
       /\ Len(r.calls) = 1 /\ r.calls[1].dev = "devA"
       /\ Listed(r, <<devices[2]>>)

\* ----------------------------------------------------------------------- C30
\* C30: in the aggregated catalog no capability type lists the same device id
\* more than once among its owning devices, whatever catalogs the devices
\* report (a catalog that repeats a capability type included).
C30_NoDuplicateOwners ==
    \A i \in 1..Len(aggregatedNodeCatalog) :
        \A j, k \in 1..Len(aggregatedNodeCatalog[i].devices) :
            aggregatedNodeCatalog[i].devices[j] = aggregatedNodeCatalog[i].devices[k]
                => j = k

\* ----------------------------------------------------------------------- C31
\* the request of `r` as a JSON-RPC tools/call with an id on POST /mcp, with
\* the same tool name and arguments
AsToolsCall(r) ==
    [r EXCEPT !.transport = "mcp", !.bodyKind = "json", !.req.id = "7",
              !.req.method = "tools/call", !.req.params = TRUE]
\* `f`, a /func call, and `t`, a tools/call, are at the same point with the
\* same remote calls issued, and where they have returned the JSON-RPC result
\* of `t` is the tool result of `f`
SameToolOutcome(f, t) ==
    /\ f.st = t.st /\ f.phase = t.phase /\ f.calls = t.calls
    /\ f.results = t.results /\ f.list = t.list
    /\ f.st = "done" =>
          /\ t.response = ResultResponse("7", ToolCallResult(f.toolResult))
          /\ f.toolResult # NoToolResult
\* the body of a /func request was read as arguments (JSON, or empty for {})
FuncCall(r) == r.transport = "func" /\ r.bodyKind \in {"json", "blank"}
\* every step of a /func call does what the same step of the tools/call does
FuncStepsAsToolsCall(s) ==
    /\ (Starts(s) /\ FuncCall(reqs'[s]))
          => SameToolOutcome(reqs'[s],
                             handleRequest(AsToolsCall(
                                 Arrived("func", NULL,
                                         Body(reqs'[s].bodyKind, reqs'[s].req)))))
    /\ (FuncCall(reqs[s]) /\ RemoteReject(s))
          => SameToolOutcome(reqs'[s], Rejected(AsToolsCall(reqs[s]), RemoteError))
    /\ \A reply \in Replies :
          (FuncCall(reqs[s]) /\ RemoteResolve(s, reply))
              => SameToolOutcome(reqs'[s], Resolved(AsToolsCall(reqs[s]), reply))
\* the HTTP status of an answered /func call: 400 exactly when the tool result
\* has its error flag set, 200 otherwise, the advisories of requireDevice included
FuncStatus(r) ==
    (r.st = "done" /\ FuncCall(r))
        => /\ r.out.body = "toolresult"
           /\ r.out.status = (IF r.toolResult.isError THEN 400 ELSE 200)
           /\ AdvisoryOf(r) # NoAdv => r.out.status = 200
\* C31: POST /func/{tool} with a JSON body of arguments returns the tool result
\* that a JSON-RPC tools/call with the same tool name and arguments returns in
\* the same registry state, for every advertised tool; the HTTP status is 400
\* exactly when that result has the error flag set and 200 otherwise
\* (resolution advisories included).
C31_FuncEqualsToolsCall ==
    /\ [](\A s \in Slots : FuncStatus(reqs[s]))
    /\ [][\A s \in Slots : FuncStepsAsToolsCall(s)]_vars
\* trigger_node by /func on a registered device whose call rejected: the tool
\* result is an error and the status 400
C31_Witness ==
    LET r == reqs["r1"]
    IN /\ r.st = "done" /\ FuncCall(r) /\ r.req.tool = "trigger_node"
       /\ r.req.deviceId = "devA" /\ Len(r.calls) = 1 /\ r.calls[1].outcome = "rejected"
       /\ r.toolResult.isError /\ r.out.status = 400

\* ----------------------------------------------------------------------- C32
\* no name occurs at two positions of the list
NoDuplicateNames(tools) ==
    \A i, j \in 1..Len(tools) : tools[i] = tools[j] => i = j
\* a tools/list request with an id has been answered
ToolsListed(r) ==
    Handled(r) /\ r.req.method = "tools/list" /\ r.req.id # NULL
\* C32: the tool set returned by tools/list contains no two tools with the
\* same name.
C32_ToolNamesDistinct ==
    \A s \in Slots :
        ToolsListed(reqs[s])
            => /\ reqs[s].response.hasResult
               /\ reqs[s].response.result.kind = "tools"
               /\ Len(reqs[s].response.result.tools) = Cardinality(ToolNames)
               /\ NoDuplicateNames(reqs[s].response.result.tools)
\* tools/list with an id on POST /mcp, answered with the advertised tools
C32_Witness ==
    LET r == reqs["r1"]
    IN /\ ToolsListed(r) /\ r.transport = "mcp" /\ r.out.status = 200
       /\ r.response.result.tools = MCP_TOOLS

\* ----------------------------------------------------------------------- C33
\* the tool call of r1 on devA is waiting for its remote call
Stalled == reqs["r1"].st = "await" /\ reqs["r1"].dev = "devA"
\* while r1 waits, whatever else can arrive can be taken up: a request on the
\* session, a registration or a close on an open connection, the answer of
\* another device
NothingElseBlocked ==
    Stalled =>
        /\ (reqs["r2"].st = "free" /\ "s1" \in sseConnections)
              => \A body \in JsonBodies(OtherRequests) : ENABLED PostMessage("r2", "s1", body)
        /\ \A c \in Conns :
              wsState[c] = "open" =>
                  /\ ENABLED WsClose(c)
                  /\ regCount < MaxRegs => ENABLED RegisterDevice(c, "devB", "device-0001")
        /\ (reqs["r2"].st = "await" /\ wsState[reqs["r2"].conn] = "open")
              => ENABLED RemoteResolve("r2", Reply(NULL))
\* while r1 waits, every other operation that is taken up runs to its end and
\* leaves r1 as it is
OthersComplete ==
    Stalled =>
        /\ reqs'["r1"] = reqs["r1"]
        /\ (Starts("r2") /\ reqs'["r2"].req.method \in {"ping", "tools/list"})
              => /\ reqs'["r2"].st = "done"
                 /\ reqs'["r2"].response.hasResult
                 /\ reqs'["r2"].out.sse = "s1" /\ reqs'["r2"].out.status = 202
        /\ (Starts("r2") /\ IsToolCall(reqs'["r2"]) /\ Has(devices, "devB"))
              => /\ reqs'["r2"].st = "await"
                 /\ CalledBy(reqs'["r2"]) = <<"devB">>
                 /\ reqs'["r2"].conn = Get(devices, "devB").conn
        /\ RemoteResolve("r2", Reply(NULL))
              => /\ reqs'["r2"].st = "done"
                 /\ reqs'["r2"].response.hasResult /\ ~reqs'["r2"].toolResult.isError
                 /\ reqs'["r2"].out.sse = "s1"
        /\ \A c \in Conns :
              /\ \A infoId \in {"devA", "devB"} :
                    RegisterDevice(c, infoId, "device-0001")
                        => Has(devices', infoId) /\ Get(devices', infoId).conn = c
              /\ WsClose(c)
                    => /\ wsState'[c] = "closed"
                       /\ \A i \in 1..Len(devices') : devices'[i].id # connDeviceId[c]
\* C33: a remote call that never completes stalls only the request awaiting
\* it: while a tool call on device A is pending forever, a ping, a tools/list,
\* a tool call addressed to another device B, a new registration and a
\* disconnect are all still processed to completion.
C33_StallIsLocal == []NothingElseBlocked /\ [][OthersComplete]_vars
\* the call on devA is still waiting after devB registered on the other
\* connection and served a get_flows that was POSTed later
C33_Witness ==
    /\ Stalled /\ reqs["r1"].conn = "c1"
    /\ reqs["r2"].st = "done" /\ reqs["r2"].req.tool = "get_flows"
    /\ reqs["r2"].calls = <<[conn |-> "c2", dev |-> "devB", rpc |-> "getFlows",
                             outcome |-> "resolved"]>>
    /\ reqs["r2"].out.sse = "s1"

\* ----------------------------------------------------------------------- C34
\* the handler of request s, which was dispatched, completes in this step
\* (after a remote call, or at once)
Completes(s) ==
    reqs[s].st # "done" /\ reqs'[s].st = "done" /\ reqs'[s].bodyKind = "json"
\* the message event of a request is written in the step in which its handler
\* completes, and in no other; a step writes at most one event
WrittenOnCompletion ==
    /\ \A s \in Slots :
          /\ Completes(s) =>
                /\ reqs'[s].response.present
                /\ reqs'[s].out.sse = reqs'[s].session /\ reqs'[s].out.status = 202
          /\ reqs'[s].out.sse # NULL => reqs'[s].st = "done" /\ reqs[s].st # "done"
          /\ reqs'[s].st = "await" => reqs'[s].out = NoOut
    /\ \A s, t \in Slots : (reqs'[s].st = "done" /\ reqs'[t].st = "done") => s = t
\* with both requests in progress (r1 was POSTed first), the completion of r2
\* writes the event of r2 at once and leaves r1 waiting, nothing written for it
LaterCompletesFirst ==
    (reqs["r1"].st = "await" /\ Completes("r2"))
        => /\ reqs'["r2"].out.sse = "s1"
           /\ reqs'["r1"] = reqs["r1"] /\ reqs'["r1"].out.sse = NULL
\* of two requests in progress the one on r1 was POSTed first
PostedInOrder ==
    /\ Starts("r2") => reqs["r1"].st = "await" /\ reqs'["r1"] = reqs["r1"]
    /\ Starts("r1") => reqs'["r2"].st # "await"
\* C34: on one SSE session with several requests in flight, message events
\* are written in the order in which the requests' handlers complete; no
\* queueing by POST arrival order is applied, so a later-POSTed request whose
\* operation completes first has its response emitted first.
C34_EventsInCompletionOrder ==
    [][WrittenOnCompletion /\ LaterCompletesFirst /\ PostedInOrder]_vars
\* the get_logs POSTed second has been answered on the stream while the
\* get_flows POSTed first is still waiting for its device
C34_Witness ==
    /\ reqs["r1"].st = "await" /\ reqs["r1"].req.tool = "get_flows"
    /\ reqs["r1"].session = "s1" /\ reqs["r1"].out.sse = NULL
    /\ reqs["r2"].st = "done" /\ reqs["r2"].req.tool = "get_logs"
    /\ reqs["r2"].calls[1].outcome = "resolved"
    /\ reqs["r2"].out.sse = "s1" /\ reqs["r2"].response.hasResult

\* ----------------------------------------------------------------------- C35
\* the record d is in the registry before the step and not after it: its key
\* is gone, or holds a record created by another connection
Leaves(d) == ~Has(devices', d.id) \/ Get(devices', d.id).conn # d.conn
\* the step is the close of connection c
Closes(c) == wsState[c] = "open" /\ wsState'[c] = "closed"
\* C35: a device record leaves the registry only through the close of the
\* connection that registered it, and its status is online for as long as it
\* is in the registry: no remote-call failure, catalog-fetch failure, tool
\* call, broadcast, registration by another connection, or close of another
\* connection removes the record or changes its status.
C35_RecordLeavesOnlyOnOwnClose ==
    /\ [](\A i \in 1..Len(devices) : devices[i].status = "online")
    /\ [][\A i \in 1..Len(devices) : Leaves(devices[i]) => Closes(devices[i].conn)]_vars

\* ----------------------------------------------------------------------- C36
\* get_started called without a deviceId (absent or empty)
IsOverview(req) == req.tool = "get_started" /\ Falsy(req.deviceId)
\* the device ids that own a node of the grouped catalog `catalog`
CatalogOwners(catalog) ==
    UNION {UNION {OwnersOf(catalog[g].nodes[n]) : n \in 1..Len(catalog[g].nodes)} :
              g \in 1..Len(catalog)}
\* a completed list_devices or get_started without a deviceId carries no
\* advisory and is no error
NeverAdvised(r) ==
    (r.st = "done" /\ IsToolCall(r) /\ (r.req.tool = "list_devices" \/ IsOverview(r.req)))
        => /\ AdvisoryOf(r) = NoAdv /\ ~r.toolResult.isError
           /\ ValueOf(r).kind = (IF r.req.tool = "list_devices" THEN "list" ELSE "overview")
\* get_started without a deviceId returns at once, without a remote call,
\* connectedDevices and the device list of the registry as it is, and a
\* nodeCatalog whose owners are all in that list
OverviewOfRegistry(s) ==
    (Starts(s) /\ IsToolCall(reqs'[s]) /\ IsOverview(reqs'[s].req))
        => LET ret == ValueOf(reqs'[s])
           IN /\ reqs'[s].st = "done" /\ reqs'[s].calls = << >>
              /\ ret.kind = "overview"
              /\ ret.count = Len(devices)
              /\ Len(ret.list) = Len(devices)
              /\ \A i \in 1..Len(devices) :
                    ret.list[i] = [id |-> devices[i].id, type |-> devices[i].type]
              /\ \A owner \in CatalogOwners(ret.catalog) :
                    \E i \in 1..Len(ret.list) : ret.list[i].id = owner
\* C36: list_devices, and get_started called without a deviceId, never return
\* a device-resolution advisory in any registry state; get_started without a
\* deviceId issues no remote call and reports connectedDevices and a device
\* list that equal the registry at the moment of the call, with every owning
\* device id in its nodeCatalog also present in that device list.
C36_OverviewNeverAdvises ==
    /\ [](\A s \in Slots : NeverAdvised(reqs[s]))
    /\ [][\A s \in Slots : OverviewOfRegistry(s)]_vars
\* get_started without a deviceId with two devices registered, one of them
\* owning the nodes of the catalog
C36_Witness ==
    LET r == reqs["r1"]
    IN /\ r.st = "done" /\ IsToolCall(r) /\ IsOverview(r.req) /\ r.calls = << >>
       /\ Len(devices) = 2
       /\ ValueOf(r).count = 2 /\ Len(ValueOf(r).list) = 2
       /\ CatalogOwners(ValueOf(r).catalog) = {devices[2].id}

\* ----------------------------------------------------------------------- C37
\* C37: a response is never written to the sink of a session that has already
\* been removed from the session table: if the SSE connection closes while a
\* request accepted on that session is still being handled, the completed
\* response is not written to the closed stream and its loss is not
\* acknowledged to the caller as a normal 202.
C37_NoWriteToClosedSession ==
    \A s \in Slots :
        /\ reqs[s].out.sse # NULL => reqs[s].out.sse \in sseConnections
        /\ (OnSession(reqs[s]) /\ reqs[s].response.present
               /\ reqs[s].session \notin sseConnections)
              => reqs[s].out.status # 202

\* ----------------------------------------------------------------------- C38
\* C38: a catalog fetch that completes after the record it was started for
\* has left the registry modifies neither the registry nor the aggregate; in
\* particular it never stores its catalog on a record created by a different
\* connection that has since registered under the same id.
C38_LateFetchChangesNothing ==
    [][\A c \in Conns, i \in 1..MaxRegs :
          (Returns(c, i) /\ ~Owns(c, fetches[c][i]))
              => /\ devices' = devices
                 /\ aggregatedNodeCatalog' = aggregatedNodeCatalog]_vars

\* ----------------------------------------------------------------------- C39
\* a deploy or send_mcp_message call whose deviceId was the id of a registered
\* device when the call started: a call resolved to one device has issued its
\* remote call, a broadcast has recorded the registry's keys in snap
AddressedToRegistered(r) ==
    /\ r.st \in {"await", "done"} /\ IsToolCall(r) /\ r.req.tool \in BroadcastTools
    /\ IF IsBroadcast(r.req)
       THEN \E i \in 1..Len(r.snap) : r.snap[i] = r.req.deviceId
       ELSE Len(r.calls) >= 1
\* C39: every device in the registry can be addressed individually by deploy
\* and send_mcp_message under the id it registered with: a call carrying that
\* id issues the remote call to that device only. This holds for every id
\* registerDevice accepts from a caller, including the string "all".
C39_AddressedIndividually ==
    \A s \in Slots :
        AddressedToRegistered(reqs[s])
            => \A k \in 1..Len(reqs[s].calls) : reqs[s].calls[k].dev = reqs[s].req.deviceId

\* ----------------------------------------------------------------------- C40
\* a list_devices call has returned
ListReturned(r) == r.st = "done" /\ IsToolCall(r) /\ r.req.tool = "list_devices"
\* the result is no error, has one entry per device called, in the order of
\* the calls, with customTools empty exactly where getCustomTools rejected,
\* and count is the number of entries
OneEntryPerCall(r) ==
    LET ret == ValueOf(r)
    IN /\ ~r.toolResult.isError /\ ret.kind = "list"
       /\ ret.count = Len(ret.list)
       /\ Len(ret.list) = Len(r.calls)
       /\ \A k \in 1..Len(r.calls) :
             /\ ret.list[k].id = r.calls[k].dev
             /\ ret.list[k].customTools = (r.calls[k].outcome = "resolved")
\* every listed device is in the registry
ListedAreRegistered(r) ==
    \A k \in 1..Len(ValueOf(r).list) : Has(devices, ValueOf(r).list[k].id)
\* C40: in list_devices, a device whose getCustomTools call rejects is still
\* listed (with an empty customTools list) and the rejection neither drops any
\* other device from the result nor turns the result into an error; every
\* device listed in the result is in the registry when the result is
\* returned, and count equals the number of listed devices.
C40_ListToleratesRejection ==
    \A s \in Slots :
        ListReturned(reqs[s]) => OneEntryPerCall(reqs[s]) /\ ListedAreRegistered(reqs[s])

====
